---- MODULE Spec2Model ----
(***************************************************************************)
(* The upload orchestration of the YouTube auto-uploader: the cycle        *)
(* scheduler (UploadJob.processUploads), the per-account pipeline          *)
(* (UploadJob.processUserUpload) and the services it awaits.  One action   *)
(* models the code that runs between two awaits of the JavaScript source;  *)
(* the event loop may run another processUploads call between two such     *)
(* steps.                                                                  *)
(***************************************************************************)
EXTENDS Integers, Sequences, FiniteSets, TLC

\* ---- bounds of the model ----
MaxCycles == 2      \* cycles that acquire the guard
MaxFaults == 1      \* failures injected into awaited external calls
MaxTries == 4       \* largest maxRetries the backoff executor is called with
MaxDigits == 2      \* longest hour or minute text of a configured time
MaxDrops == 7       \* triggers dropped in one cycle while the record is kept
MaxTags == 2        \* longest list of configured tags drawn from the tag pool

\* ---- program constants ----
SkipLimit == 3          \* uploadJob.js:39
BatchLimit == 100       \* uploadJob.js:76
MinVideoBytes == 1024   \* helpers.js:94
FiveMinutes == 5 * 60 * 1000      \* part_005:12, in milliseconds
\* the lifetime of the access tokens the authorization service issues
TokenLifetime == 60 * 60 * 1000
\* Date.now() when the process starts
StartTime == 2 * TokenLifetime

Accounts == {1, 2}   \* the registered accounts (User._id)
Calls == {1, 2}      \* activation frames of processUploads that can coexist

VARIABLES
  isRunning,      \* UploadJob.isRunning
  skippedCycles,  \* UploadJob.skippedCycles
  cycles,         \* number of calls that acquired the guard
  inv,            \* per activation of processUploads: position and locals
  users,          \* persisted User collection
  logs,           \* persisted UploadLog collection
  catalog,        \* pending videos on the main server, next first
  disk,           \* artifacts present in the downloads directory
  youtube,        \* videos published so far
  issued,         \* access tokens the authorization service has issued
  grants,         \* accounts whose refresh token the service still honours
  attempted,      \* accounts whose pipeline has been started so far
  clock,          \* Date.now()
  faults,         \* failures injected so far
  retry,          \* a call of retryWithBackoff: its arguments and outcome
  sched,          \* the schedule: configuration, UploadJob.cronJob, start()
  trace,          \* what logger.error has recorded about dropped triggers
  call            \* a call made from outside the upload job, and its position

vars == <<isRunning, skippedCycles, cycles, inv, users, logs, catalog,
          disk, youtube, issued, grants, attempted, clock, faults, retry,
          sched, trace, call>>

\* ---------------------------------------------------------------------
\* Error texts.  A text is a sequence of fragments, cut at the words the
\* code probes with String.includes.
\* ---------------------------------------------------------------------
NoError == << >>
Includes(msg, word) == \E k \in 1..Len(msg) : msg[k] = word

MsgDbWrite == <<"MongoNetworkError: write failed">>
MsgDbRead == <<"MongoNetworkError: read failed">>
MsgFetchTimeout == <<"Main server connection timeout">>
MsgInvalidVideoData == <<"Invalid video data received from server">>
MsgEmpty == <<"Video file is empty">>
MsgTooSmall == <<"Video file is too small">>
MsgDownloadTimeout == <<"Download timeout - took too long">>
MsgStream == <<"aborted">>
MsgTokenExpired ==
  <<"User ", "authentication", " token expired. Please ", "re-authenticate",
    " by visiting /auth/login">>
MsgTokensNotFound ==
  <<"User tokens not found. User needs to ", "re-authenticate", ".">>
MsgQuota == <<"YouTube API ", "quota", " exceeded - please try again later">>
MsgAuthFailed ==
  <<"YouTube ", "authentication", " failed - user needs to ", "re-authenticate">>
MsgFileDeleted == <<"Video file was deleted before upload completed">>
MsgBackend == <<"Backend Error">>

ValidationFailed(m) == <<"Video file validation failed: ">> \o m
UploadFailed(m) == <<"Upload failed: ">> \o m

\* ---------------------------------------------------------------------
\* Documents
\* ---------------------------------------------------------------------
NoVideo == [id |-> 0, bytes |-> 0]
NoLog == [isNull |-> TRUE, id |-> 0, userId |-> 0, videoId |-> 0,
          status |-> "none", errorMessage |-> NoError, youtubeVideoId |-> 0,
          dirty |-> FALSE, trail |-> << >>]

EmptyResults == [successful |-> << >>, failed |-> << >>, totalUsers |-> 0,
                 noVideos |-> FALSE, dbError |-> FALSE]

\* ---------------------------------------------------------------------
\* UploadJob.start.  A configured time is the list of texts that
\* scheduleTime.split(':') yields, a text a sequence of characters.
\* ---------------------------------------------------------------------
Digits == {"0", "2", "3", "4", "5", "6", "9"}
\* the characters of the configured hours and minutes
HourChars == {"0", "2", "3", "4", "x"}
MinuteChars == {"0", "5", "6", "9", "x"}

DigitValue(ch) ==
  CASE ch = "0" -> 0 [] ch = "2" -> 2 [] ch = "3" -> 3 [] ch = "4" -> 4
    [] ch = "5" -> 5 [] ch = "6" -> 6 [] ch = "9" -> 9

NaN == [nan |-> TRUE, val |-> 0]
Num(n) == [nan |-> FALSE, val |-> n]

IsDecimal(text) == \A k \in 1..Len(text) : text[k] \in Digits

\* 0x followed by digits
IsHex(text) ==
  /\ Len(text) >= 3
  /\ text[1] = "0" /\ text[2] = "x"
  /\ \A k \in 3..Len(text) : text[k] \in Digits

RECURSIVE ValueIn(_, _)
ValueIn(text, base) ==
  IF text = << >> THEN 0
  ELSE base * ValueIn(SubSeq(text, 1, Len(text) - 1), base)
         + DigitValue(text[Len(text)])

\* the number JavaScript converts a text to
ToNumber(text) ==
  IF IsDecimal(text) THEN Num(ValueIn(text, 10))
  ELSE IF IsHex(text) THEN Num(ValueIn(SubSeq(text, 3, Len(text)), 16))
  ELSE NaN

IsNaN(text) == ToNumber(text).nan

\* text < k and text > k: false when the text is not a number
Below(text, k) == ~ToNumber(text).nan /\ ToNumber(text).val < k
AboveOrAt(text, k) == ~ToNumber(text).nan /\ ToNumber(text).val >= k
Above(text, k) == ~ToNumber(text).nan /\ ToNumber(text).val > k

\* moment.tz.names()
ZoneNames == {"Asia/Kolkata", "UTC"}

\* the field of a cron expression is a plain number
CronField(text) == text # << >> /\ IsDecimal(text)

NotStarted(zone, time) ==
  [timezone |-> zone, scheduleTime |-> time, cronJob |-> "null", pc |-> "new",
   thrown |-> NoError]

\* the job as the cycles of this model find it: started and scheduled
Scheduled == [cronJob |-> "scheduled", pc |-> "started"]

\* the locals of retryWithBackoff when it is entered
Undefined == "undefined"

Started == [calls |-> 0, log |-> << >>, waits |-> << >>, lastError |-> Undefined,
            returned |-> FALSE, value |-> Undefined, thrown |-> Undefined]

\* no call of the executor is being followed
NoRetry == [pc |-> "idle"]

\* what the last call of an EmailService operation did: nothing sent yet
NoMail == [calls |-> 0, waits |-> << >>, delivered |-> 0, acceptedAt |-> 0,
           returned |-> "none"]

\* no account document loaded by the credential manager
NoBundle ==
  [isActive |-> FALSE, accessToken |-> 0, expiry_date |-> 0, refresh_token |-> 0,
   scope |-> 0, token_type |-> 0, lastTokenRefresh |-> 0, dirty |-> {}]

\* the locals of an invocation that is not in the cycle body
Idle(pc) == [pc |-> pc, cycle |-> 0, results |-> EmptyResults, users |-> << >>, idx |-> 0,
             videoData |-> NoVideo, filePath |-> 0, uploadLog |-> NoLog,
             error |-> NoError, uploadResult |-> 0,
             tokenUser |-> NoBundle,
             entry |-> [failedUploads |-> 0, totalUploads |-> 0, logs |-> 0,
                        lastUploadDate |-> 0],
             reports |-> 0, alerts |-> << >>, runs |-> << >>, none |-> << >>,
             mail |-> NoMail,
             exchanges |-> 0, publishTried |-> FALSE,
             cause |-> [code |-> 0, msg |-> NoError]]

\* what the main server holds at start: two sound videos, one sound video,
\* an undersized one, an empty one
InitialCatalogs ==
  { << [id |-> 1, bytes |-> 2048], [id |-> 2, bytes |-> 4096] >>,
    << [id |-> 1, bytes |-> 2048] >>,
    << [id |-> 1, bytes |-> 512] >>,
    << [id |-> 1, bytes |-> 0] >> }

\* the registered accounts at start: all active, or only account 1
InitialActive == { Accounts, {1} }

\* the token bundles stored at start (expiry_date 0: none recorded) and the
\* refresh tokens the authorization service honours: account 1 expired and
\* account 2 one millisecond short of the refresh window, or account 1
\* without expiry and revoked and account 2 exactly at the window
InitialTokens ==
  { [expiry |-> <<StartTime - 1, StartTime + FiveMinutes + 1>>, grants |-> {1, 2}],
    [expiry |-> <<0, StartTime + FiveMinutes>>, grants |-> {2}] }

NewUser(active, expiry) ==
  [isActive |-> active, lastUploadDate |-> 0,
   totalUploads |-> 0, failedUploads |-> 0,
   hasRefreshToken |-> TRUE, accessToken |-> 0, expiry_date |-> expiry,
   refresh_token |-> 1, scope |-> 1, token_type |-> 1, lastTokenRefresh |-> 0]

\* an account stored without a refresh token, its access token not expiring
BareUser(active) ==
  [NewUser(active, StartTime + TokenLifetime)
     EXCEPT !.hasRefreshToken = FALSE, !.refresh_token = 0]

\* a registration larger than one batch: every account active and served
\* once before, account a at TokenLifetime + a, so that the last account is
\* the most recently served; the main server's next video is undersized, and
\* no call fails for a reason outside the stored data
Crowd == 1..(BatchLimit + 1)

CrowdUser(a) ==
  [NewUser(TRUE, StartTime + TokenLifetime)
     EXCEPT !.lastUploadDate = TokenLifetime + a, !.totalUploads = 1]

CrowdCatalog == << [id |-> 1, bytes |-> 512] >>

Deployed ==
  /\ isRunning = FALSE
  /\ skippedCycles = 0
  /\ cycles = 0
  /\ inv = [i \in Calls |-> Idle("none")]
  /\ \/ /\ \E act \in InitialActive : \E tok \in InitialTokens :
             /\ users = [a \in Accounts |-> NewUser(a \in act, tok.expiry[a])]
             /\ grants = tok.grants
        /\ catalog \in InitialCatalogs
        /\ faults = 0
     \/ /\ users = [a \in Crowd |-> CrowdUser(a)]
        /\ grants = Crowd
        /\ catalog = CrowdCatalog
        /\ faults = MaxFaults
     \/ /\ users = [a \in Accounts |-> BareUser(a = 1)]
        /\ grants = Accounts
        /\ catalog = << [id |-> 1, bytes |-> 2048] >>
        /\ faults = 0
  /\ logs = << >>
  /\ disk = {}
  /\ youtube = << >>
  /\ issued = 0
  /\ attempted = {}
  /\ clock = StartTime

\* the record of the stuck-cycle anomaly: not kept, or kept from the start
\* of the current cycle: the triggers dropped and the anomalies logged since
Untraced == [on |-> FALSE]
Traced == [on |-> TRUE, drops |-> 0, stuck |-> 0]

\* no call from outside the upload job is in progress
NoCall == [op |-> "none"]

Init ==
  /\ Deployed
  /\ retry = NoRetry /\ sched = Scheduled /\ trace = Untraced /\ call = NoCall

\* ---------------------------------------------------------------------
\* Helpers
\* ---------------------------------------------------------------------
Min(a, b) == IF a < b THEN a ELSE b
Range(s) == {s[k] : k \in 1..Len(s)}

\* an awaited external call may fail while the fault budget lasts
CanFail == faults < MaxFaults
Fail == faults' = faults + 1
NoFail == faults' = faults

Update(i, rec) == inv' = [inv EXCEPT ![i] = rec]

\* ---------------------------------------------------------------------
\* helpers.retryWithBackoff.  The behaviour of fn is a script: the outcome
\* of its k-th invocation is script[k], a value it resolves with or an
\* error it rejects with.
\* ---------------------------------------------------------------------
DelayFromSecond(baseDelay, i) == baseDelay * 2^(i + 1)

\* baseDelay * Math.pow(2, i)
Delay(baseDelay, i) == baseDelay * 2^i

CaughtFirst(st, error) ==
  IF st.lastError = Undefined THEN [st EXCEPT !.lastError = error] ELSE st

\* lastError = error
Caught(st, error) == [st EXCEPT !.lastError = error]

\* i < maxRetries - 1
Sleeps(i, maxRetries) == i < maxRetries - 1

\* the loop from iteration i on
RECURSIVE RetryLoop(_, _, _, _, _)
RetryLoop(script, maxRetries, baseDelay, i, st) ==
  IF i >= maxRetries
  THEN [st EXCEPT !.thrown = st.lastError]
  ELSE LET r == script[i + 1]
           called == [st EXCEPT !.calls = @ + 1, !.log = Append(@, r)]
       IN  IF r.ok
           THEN [called EXCEPT !.returned = TRUE, !.value = r.res]
           ELSE LET caught == Caught(called, r.res)
                    slept == IF Sleeps(i, maxRetries)
                             THEN [caught EXCEPT
                                     !.waits = Append(@, Delay(baseDelay, i))]
                             ELSE caught
                IN  RetryLoop(script, maxRetries, baseDelay, i + 1, slept)

RetryWithBackoff(script, maxRetries, baseDelay) ==
  RetryLoop(script, maxRetries, baseDelay, 0, Started)

\* what an invocation of fn can do: resolve with a value or reject with an
\* error
FnOutcomes ==
  { [ok |-> TRUE, res |-> "a"], [ok |-> TRUE, res |-> "b"],
    [ok |-> FALSE, res |-> "x"], [ok |-> FALSE, res |-> "y"] }

BaseDelays == {500, 1000}

\* the calls of the executor: maxRetries from 1 to MaxTries
RetryCalls ==
  UNION { { [pc |-> "called", script |-> s, maxRetries |-> n, baseDelay |-> d,
             out |-> Started] : s \in [1..n -> FnOutcomes], d \in BaseDelays }
          : n \in 1..MaxTries }

\* the call runs to its end
Invoke ==
  /\ retry.pc = "called"
  /\ retry' = [retry EXCEPT
                 !.pc = "settled",
                 !.out = RetryWithBackoff(retry.script, retry.maxRetries,
                                          retry.baseDelay)]
  /\ UNCHANGED <<isRunning, skippedCycles, cycles, inv, users, logs, catalog,
                 disk, youtube, issued, grants, sched, attempted, clock, faults, trace, call>>

\* ---------------------------------------------------------------------
\* EmailService.  transporter.sendMail accepts the message or fails.
\* ---------------------------------------------------------------------
Accepted == [ok |-> TRUE, res |-> "250 OK"]
Refused == [ok |-> FALSE, res |-> "ECONNREFUSED"]

\* what the transport does on the next three sends
TransportScripts ==
  { <<a, b, c>> : a \in {Accepted, Refused}, b \in {Accepted, Refused},
                  c \in {Accepted, Refused} }

Accepts(log) == Cardinality({k \in 1..Len(log) : log[k].ok})

\* the first send the transport accepted, 0 when it accepted none
AcceptedAt(log) ==
  IF Accepts(log) = 0 THEN 0
  ELSE CHOOSE k \in 1..Len(log) : log[k].ok /\ \A j \in 1..(k - 1) : ~log[j].ok

Rethrown(r) == IF r.returned THEN "true" ELSE "thrown"

\* return true after the executor returned; its throw is caught: return false
Swallowed(r) == IF r.returned THEN "true" ELSE "false"

\* an EmailService operation: the executor around transporter.sendMail
Dispatch(script, maxRetries, baseDelay) ==
  LET r == RetryWithBackoff(script, maxRetries, baseDelay) IN
  [calls |-> r.calls, waits |-> r.waits, delivered |-> Accepts(r.log),
   acceptedAt |-> AcceptedAt(r.log),
   returned |-> Swallowed(r)]

\* a call in which the transport refused a send is one injected failure
Transport(mail) == IF mail.calls > mail.delivered THEN CanFail /\ Fail ELSE NoFail

\* sendUploadReport: three attempts, base delay 1000 ms
ReportMails == [script \in TransportScripts |-> Dispatch(script, 3, 1000)]

ReportMail(script) == ReportMails[script]

\* sendErrorNotification: three attempts, base delay 1000 ms
ErrorMails == [script \in TransportScripts |-> Dispatch(script, 3, 1000)]

ErrorMail(script) == ErrorMails[script]

ReAuthMailThrice(script) == Dispatch(script, 3, 500)

\* sendReAuthenticationRequired: two attempts, base delay 500 ms
ReAuthMails == [script \in TransportScripts |-> Dispatch(script, 2, 500)]

ReAuthMail(script) == ReAuthMails[script]

\* emailService.sendUploadReport: one report handed to the dispatcher
SendUploadReport(c, script) ==
  [c EXCEPT !.reports = @ + 1, !.mail = ReportMail(script)]

\* ---------------------------------------------------------------------
\* UploadJob.processUploads: entry
\* ---------------------------------------------------------------------
AlreadyRunningNoGuard == FALSE

AlreadyRunning == isRunning

SkipCountNoReset(n) == n + 1

StuckLoggedLate(n) == n + 1 > SkipLimit

\* if (this.skippedCycles >= 3) after the increment: logger.error
StuckLogged(n) == n + 1 >= SkipLimit

SkipCount(n) == IF StuckLogged(n) THEN 0 ELSE n + 1

\* the record after a dropped trigger that found the counter at n
Skipped(t, n) ==
  IF t.on
  THEN [t EXCEPT !.drops = @ + 1,
                 !.stuck = IF StuckLogged(n) THEN @ + 1 ELSE @]
  ELSE t

\* the record after a trigger that started a cycle
Restarted(t) == IF t.on THEN Traced ELSE t

\* a call of processUploads; i is the frame it runs in when it acquires
\* the guard
ProcessUploads(i) ==
  /\ inv[i].pc = "none"
  /\ \A j \in Calls : j < i => inv[j].pc # "none"
  /\ IF AlreadyRunning
     THEN /\ trace.on => trace.drops < MaxDrops
          /\ skippedCycles' = SkipCount(skippedCycles)
          /\ trace' = Skipped(trace, skippedCycles)
          /\ UNCHANGED <<isRunning, cycles, inv>>
     ELSE /\ cycles < MaxCycles
          /\ isRunning' = TRUE
          /\ skippedCycles' = 0
          /\ cycles' = cycles + 1
          /\ trace' = Restarted(trace)
          /\ Update(i, [Idle("checkDb") EXCEPT !.cycle = cycles + 1])
  /\ UNCHANGED <<users, logs, catalog, disk, youtube, issued, grants, sched,
                 retry, attempted, clock, faults, call>>

\* the cron callback
CronTick == sched.cronJob = "scheduled" /\ \E i \in Calls : ProcessUploads(i)

\* the manual trigger
RunNow == \E i \in Calls : ProcessUploads(i)

\* ---------------------------------------------------------------------
\* UploadJob.processUploads: cycle body
\* ---------------------------------------------------------------------
DbDownGoesOn(c) == [c EXCEPT !.pc = "query", !.results.dbError = TRUE]

\* the check returned false: flag the result and go to the report
DbDown(c) == [c EXCEPT !.pc = "reportDb", !.results.dbError = TRUE]

CheckDatabase(i) ==
  /\ inv[i].pc = "checkDb"
  /\ \/ /\ NoFail
        /\ Update(i, [inv[i] EXCEPT !.pc = "query"])
     \/ /\ CanFail /\ Fail
        /\ Update(i, DbDown(inv[i]))
  /\ UNCHANGED <<isRunning, skippedCycles, cycles, users, logs, catalog,
                 disk, youtube, issued, grants, sched, retry, attempted, clock, trace, call>>

SendReportDbError(i) ==
  /\ inv[i].pc = "reportDb"
  /\ \E script \in TransportScripts :
       /\ Update(i, [SendUploadReport(inv[i], script) EXCEPT !.pc = "finally"])
       /\ Transport(ReportMail(script))
  /\ UNCHANGED <<isRunning, skippedCycles, cycles, users, logs, catalog,
                 disk, youtube, issued, grants, sched, retry, attempted, clock, trace, call>>

\* User.find({isActive: true}).sort({lastUploadDate: 1}).limit(100)
MatchesAll(a) == TRUE

\* the filter of User.find({ isActive: true })
Matches(a) == users[a].isActive

ActiveIds == {a \in DOMAIN users : Matches(a)}

IsQueryResult(s) ==
  /\ \A k \in 1..Len(s) : s[k] \in ActiveIds
  /\ \A j, k \in 1..Len(s) : j < k =>
        /\ s[j] # s[k]
        /\ users[s[j]].lastUploadDate <= users[s[k]].lastUploadDate
  /\ \A a \in ActiveIds \ Range(s) : \A k \in 1..Len(s) :
        users[s[k]].lastUploadDate <= users[a].lastUploadDate

Later(d, e) == d > e

\* sort({ lastUploadDate: 1 }): d comes before e
Earlier(d, e) == d < e

\* the orders in which a group of equal dates can come back
TieOrders(G) ==
  {p \in [1..Cardinality(G) -> G] : \A j, k \in 1..Cardinality(G) : j < k => p[j] # p[k]}

\* the orders the sort can return S in: ascending dates, equal dates in any
\* order (the set is split at a middle date, each half is sorted)
RECURSIVE SortedOrders(_)
SortedOrders(S) ==
  LET D == {users[a].lastUploadDate : a \in S} IN
  IF Cardinality(D) <= 1 THEN TieOrders(S)
  ELSE LET d == CHOOSE d \in D :
                  Cardinality({e \in D : Earlier(e, d)}) = Cardinality(D) \div 2
           first == {a \in S : Earlier(users[a].lastUploadDate, d)}
       IN  {x \o y : x \in SortedOrders(first), y \in SortedOrders(S \ first)}

QueryResults ==
  LET n == Min(BatchLimit, Cardinality(ActiveIds))
  IN  {SubSeq(o, 1, n) : o \in SortedOrders(ActiveIds)}

\* the document mongoose hands out for a stored account
Load(a) == [id |-> a, isActive |-> users[a].isActive,
            lastUploadDate |-> users[a].lastUploadDate,
            totalUploads |-> users[a].totalUploads,
            failedUploads |-> users[a].failedUploads,
            dirty |-> {}]

StoredWhole(doc, old) ==
  [f \in DOMAIN old |-> IF f \in DOMAIN doc THEN doc[f] ELSE old[f]]

\* Document.save: writes the modified paths of the document
Stored(doc, old) ==
  [f \in DOMAIN old |-> IF f \in doc.dirty THEN doc[f] ELSE old[f]]

\* start of processUserUpload for the account at c.idx
Enter(c) == [c EXCEPT !.pc = "fetch", !.videoData = NoVideo, !.filePath = 0,
                      !.uploadLog = NoLog, !.error = NoError, !.uploadResult = 0,
                      !.exchanges = 0, !.publishTried = FALSE,
                      !.cause = [code |-> 0, msg |-> NoError]]

QueryUsers(i) ==
  /\ inv[i].pc = "query"
  /\ \/ /\ NoFail
        /\ \E s \in QueryResults :
             LET c == [inv[i] EXCEPT !.users = [k \in 1..Len(s) |-> Load(s[k])],
                                     !.results.totalUsers = Len(s)]
             IN  IF Len(s) = 0
                 THEN Update(i, [c EXCEPT !.pc = "reportEmpty"])
                 ELSE Update(i, Enter([c EXCEPT !.idx = 1]))
     \/ /\ CanFail /\ Fail
        /\ Update(i, [inv[i] EXCEPT !.pc = "reportCatch"])
  /\ UNCHANGED <<isRunning, skippedCycles, cycles, users, logs, catalog,
                 disk, youtube, issued, grants, sched, retry, attempted, clock, trace, call>>

SendReportNoUsers(i) ==
  /\ inv[i].pc = "reportEmpty"
  /\ \E script \in TransportScripts :
       /\ Update(i, [SendUploadReport(inv[i], script) EXCEPT !.pc = "finally"])
       /\ Transport(ReportMail(script))
  /\ UNCHANGED <<isRunning, skippedCycles, cycles, users, logs, catalog,
                 disk, youtube, issued, grants, sched, retry, attempted, clock, trace, call>>

SendReportFinal(i) ==
  /\ inv[i].pc = "reportFinal"
  /\ \E script \in TransportScripts :
       /\ Update(i, [SendUploadReport(inv[i], script) EXCEPT !.pc = "finally"])
       /\ Transport(ReportMail(script))
  /\ UNCHANGED <<isRunning, skippedCycles, cycles, users, logs, catalog,
                 disk, youtube, issued, grants, sched, retry, attempted, clock, trace, call>>

SendReportCatchSilent(i) ==
  /\ inv[i].pc = "reportCatch"
  /\ Update(i, [inv[i] EXCEPT !.pc = "finally"])
  /\ UNCHANGED <<isRunning, skippedCycles, cycles, users, logs, catalog,
                 disk, youtube, issued, grants, sched, retry, attempted, clock, faults, trace, call>>

SendReportCatch(i) ==
  /\ inv[i].pc = "reportCatch"
  /\ \E script \in TransportScripts :
       /\ Update(i, [SendUploadReport(inv[i], script) EXCEPT !.pc = "finally"])
       /\ Transport(ReportMail(script))
  /\ UNCHANGED <<isRunning, skippedCycles, cycles, users, logs, catalog,
                 disk, youtube, issued, grants, sched, retry, attempted, clock, trace, call>>

FinallyKeepsFlag(i) ==
  /\ inv[i].pc = "finally"
  /\ Update(i, Idle("none"))
  /\ UNCHANGED <<isRunning, skippedCycles, cycles, users, logs, catalog, disk,
                 youtube, issued, grants, sched, retry, attempted, clock, faults, trace, call>>

Finally(i) ==
  /\ inv[i].pc = "finally"
  /\ isRunning' = FALSE
  /\ Update(i, Idle("none"))
  /\ UNCHANGED <<skippedCycles, cycles, users, logs, catalog, disk,
                 youtube, issued, grants, sched, retry, attempted, clock, faults, trace, call>>

\* ---------------------------------------------------------------------
\* UploadJob.processUserUpload
\* ---------------------------------------------------------------------
Doc(c) == c.users[c.idx]

AdvanceUntilFailure(c) ==
  IF c.idx < Len(c.users) /\ c.results.failed = << >>
  THEN Enter([c EXCEPT !.idx = @ + 1])
  ELSE [c EXCEPT !.pc = "reportFinal"]

AdvanceToReport(c) == [c EXCEPT !.pc = "reportFinal"]

\* return of processUserUpload: the loop takes the next account
Advance(c) ==
  IF c.idx < Len(c.users)
  THEN Enter([c EXCEPT !.idx = @ + 1])
  ELSE [c EXCEPT !.pc = "reportFinal"]

\* a thrown error enters the catch block
Throw(c, msg) == [c EXCEPT !.pc = "catchLog", !.error = msg]

NoVideoAsFailure(c) == Throw(c, <<"No videos available">>)

\* the return taken when no video is pending
NoVideoReturn(c) ==
  Advance([c EXCEPT !.results.noVideos = TRUE, !.none = Append(@, Doc(c).id)])

\* uploadLog.save(): an insert while the document is new, an update after
LogId(doc) == IF doc.id = 0 THEN Len(logs) + 1 ELSE doc.id

\* the stored form of an UploadLog document, written by frame i
Persisted(doc, i) ==
  [userId |-> doc.userId, videoId |-> doc.videoId, status |-> doc.status,
   errorMessage |-> doc.errorMessage, youtubeVideoId |-> doc.youtubeVideoId,
   cycle |-> inv[i].cycle]

\* the document after a save that succeeded
Saved(doc) == [doc EXCEPT !.id = LogId(doc), !.dirty = FALSE,
                          !.trail = Append(@, doc.status)]

SaveLog(doc, i) ==
  IF doc.id = 0
  THEN logs' = Append(logs, Persisted(doc, i))
  ELSE logs' = [logs EXCEPT ![doc.id] = Persisted(doc, i)]

FetchErrors == {MsgFetchTimeout, MsgInvalidVideoData}

\* videoService.getNextVideo and the no-video return
FetchVideo(i) ==
  LET c == [inv[i] EXCEPT !.runs = Append(@, Doc(inv[i]).id),
                          !.mail = NoMail,
                          !.entry = [failedUploads |-> Doc(inv[i]).failedUploads,
                                     totalUploads |-> Doc(inv[i]).totalUploads,
                                     logs |-> Len(logs),
                                     lastUploadDate |->
                                       users[Doc(inv[i]).id].lastUploadDate]]
  IN
  /\ inv[i].pc = "fetch"
  /\ \/ /\ catalog = << >> /\ NoFail
        /\ Update(i, NoVideoReturn(c))
     \/ /\ catalog # << >> /\ NoFail
        /\ Update(i, [c EXCEPT !.pc = "createLog", !.videoData = Head(catalog)])
     \/ /\ CanFail /\ Fail
        /\ \E msg \in FetchErrors : Update(i, Throw(c, msg))
  /\ attempted' = attempted \cup {Doc(inv[i]).id}
  /\ UNCHANGED <<isRunning, skippedCycles, cycles, users, logs, catalog,
                 disk, youtube, issued, grants, sched, retry, clock, trace, call>>

NewUploadLogPending(c) ==
  [isNull |-> FALSE, id |-> 0, userId |-> Doc(c).id, videoId |-> c.videoData.id,
   status |-> "pending", errorMessage |-> NoError, youtubeVideoId |-> 0,
   dirty |-> TRUE, trail |-> << >>]

NewUploadLog(c) ==
  [isNull |-> FALSE, id |-> 0, userId |-> Doc(c).id, videoId |-> c.videoData.id,
   status |-> "downloading", errorMessage |-> NoError, youtubeVideoId |-> 0,
   dirty |-> TRUE, trail |-> << >>]

CreateLog(i) ==
  LET doc == NewUploadLog(inv[i]) IN
  /\ inv[i].pc = "createLog"
  /\ \/ /\ NoFail
        /\ SaveLog(doc, i)
        /\ Update(i, [inv[i] EXCEPT !.pc = "download", !.uploadLog = Saved(doc)])
     \/ /\ CanFail /\ Fail
        /\ UNCHANGED logs
        /\ Update(i, Throw([inv[i] EXCEPT !.uploadLog = doc], MsgDbWrite))
  /\ UNCHANGED <<isRunning, skippedCycles, cycles, users, catalog, disk,
                 youtube, issued, grants, sched, retry, attempted, clock, trace, call>>

DownloadErrors == {MsgDownloadTimeout, MsgStream}

\* videoService.downloadVideo: the artifact is named after the video
DownloadVideo(i) ==
  LET f == inv[i].videoData.id IN
  /\ inv[i].pc = "download"
  /\ \/ /\ NoFail
        /\ disk' = disk \cup {f}
        /\ Update(i, [inv[i] EXCEPT !.pc = "validate", !.filePath = f])
     \/ /\ CanFail /\ Fail
        /\ disk' = disk \ {f}
        /\ \E msg \in DownloadErrors : Update(i, Throw(inv[i], msg))
  /\ UNCHANGED <<isRunning, skippedCycles, cycles, users, logs, catalog,
                 youtube, issued, grants, sched, retry, attempted, clock, trace, call>>

ValidationErrorNone(exists, bytes) == NoError

\* helpers.validateVideoFile: the error it throws, NoError when the file passes
ValidationError(exists, bytes) ==
  IF ~exists THEN <<"Video file does not exist">>
  ELSE IF bytes = 0 THEN MsgEmpty
  ELSE IF bytes < MinVideoBytes THEN MsgTooSmall
  ELSE NoError

ValidateVideo(i) ==
  LET c == inv[i]
      err == ValidationError(c.filePath \in disk, c.videoData.bytes)
  IN
  /\ c.pc = "validate"
  /\ IF err = NoError
     THEN Update(i, [c EXCEPT !.pc = "setUploading"])
     ELSE Update(i, Throw(c, ValidationFailed(err)))
  /\ UNCHANGED <<isRunning, skippedCycles, cycles, users, logs, catalog,
                 disk, youtube, issued, grants, sched, retry, attempted, clock, faults, trace, call>>

SetUploading(i) ==
  LET doc == [inv[i].uploadLog EXCEPT !.status = "uploading", !.dirty = TRUE] IN
  /\ inv[i].pc = "setUploading"
  /\ \/ /\ NoFail
        /\ SaveLog(doc, i)
        /\ Update(i, [inv[i] EXCEPT !.pc = "getTokens", !.uploadLog = Saved(doc)])
     \/ /\ CanFail /\ Fail
        /\ UNCHANGED logs
        /\ Update(i, Throw([inv[i] EXCEPT !.uploadLog = doc], MsgDbWrite))
  /\ UNCHANGED <<isRunning, skippedCycles, cycles, users, catalog, disk,
                 youtube, issued, grants, sched, retry, attempted, clock, trace, call>>

\* ---------------------------------------------------------------------
\* YouTubeService.uploadVideo and TokenService
\* ---------------------------------------------------------------------
\* the catch block of uploadVideo: the error it rethrows
ClassifyUploadErrorAuthFirst(code, msg) ==
  IF code = 401 \/ code = 403 \/ Includes(msg, "invalid_grant") THEN MsgAuthFailed
  ELSE IF Includes(msg, "quota") THEN MsgQuota
  ELSE IF Includes(msg, "ENOENT") \/ Includes(msg, "file not found")
       THEN MsgFileDeleted
  ELSE UploadFailed(msg)

ClassifyUploadError(code, msg) ==
  IF code = 403 \/ Includes(msg, "quota") THEN MsgQuota
  ELSE IF code = 401 \/ Includes(msg, "invalid_grant") THEN MsgAuthFailed
  ELSE IF Includes(msg, "ENOENT") \/ Includes(msg, "file not found")
       THEN MsgFileDeleted
  ELSE UploadFailed(msg)

ExpiringPastOnly(expiryDate, now) == expiryDate = 0 \/ now >= expiryDate

\* refreshTokenIfNeeded: no expiry recorded, or inside the five-minute window
Expiring(expiryDate, now) == expiryDate = 0 \/ now >= expiryDate - FiveMinutes

\* the account document User.findById hands to the credential manager
Bundle(a) ==
  [isActive |-> users[a].isActive, accessToken |-> users[a].accessToken,
   expiry_date |-> users[a].expiry_date, refresh_token |-> users[a].refresh_token,
   scope |-> users[a].scope, token_type |-> users[a].token_type,
   lastTokenRefresh |-> users[a].lastTokenRefresh, dirty |-> {}]

\* the paths of the tokens object, written together when it is assigned
TokenPaths == {"accessToken", "expiry_date", "refresh_token", "scope", "token_type"}

RefreshedBare(doc, token, expiry, now) ==
  [doc EXCEPT !.accessToken = token, !.expiry_date = expiry,
              !.refresh_token = 0, !.scope = 0, !.token_type = 0,
              !.lastTokenRefresh = now,
              !.dirty = @ \cup TokenPaths \cup {"lastTokenRefresh"}]

\* user.tokens = { ...user.tokens, access_token, expiry_date } and
\* user.lastTokenRefresh = new Date()
Refreshed(doc, token, expiry, now) ==
  [doc EXCEPT !.accessToken = token, !.expiry_date = expiry,
              !.lastTokenRefresh = now,
              !.dirty = @ \cup TokenPaths \cup {"lastTokenRefresh"}]

\* uploadVideo up to getValidTokens' lookup and expiry test
GetValidTokens(i) ==
  LET c == inv[i]
      a == Doc(c).id
  IN
  /\ c.pc = "getTokens"
  /\ IF c.filePath \notin disk
     THEN NoFail /\ Update(i, Throw(c, ClassifyUploadError(0, <<"Video ", "file not found">>)))
     ELSE \/ /\ NoFail
             /\ IF ~users[a].hasRefreshToken
                THEN Update(i, Throw(c, ClassifyUploadError(0, MsgTokensNotFound)))
                ELSE Update(i, [c EXCEPT !.pc = IF Expiring(users[a].expiry_date, clock)
                                                 THEN "refresh" ELSE "insert",
                                          !.tokenUser = Bundle(a)])
          \/ /\ CanFail /\ Fail
             /\ Update(i, Throw(c, ClassifyUploadError(0, MsgDbRead)))
  /\ UNCHANGED <<isRunning, skippedCycles, cycles, users, logs, catalog,
                 disk, youtube, issued, grants, sched, retry, attempted, clock, trace, call>>

RefreshFailedRetry(c) == [c EXCEPT !.pc = "refresh"]

\* a failed refresh: refreshTokenIfNeeded throws, getValidTokens marks its
\* document inactive
RefreshFailed(c) ==
  [c EXCEPT !.pc = "deactivate",
            !.tokenUser.isActive = FALSE,
            !.tokenUser.dirty = @ \cup {"isActive"}]

\* oauth2Client.refreshAccessToken
RefreshToken(i) ==
  LET c == [inv[i] EXCEPT !.exchanges = @ + 1] IN
  /\ c.pc = "refresh"
  /\ \/ /\ Doc(c).id \in grants /\ NoFail
        /\ issued' = issued + 1
        /\ Update(i, [c EXCEPT !.pc = "saveTokens",
                               !.tokenUser = Refreshed(@, issued + 1,
                                                       clock + TokenLifetime, clock)])
     \/ /\ Doc(c).id \notin grants /\ NoFail
        /\ UNCHANGED issued
        /\ Update(i, RefreshFailed(c))
     \/ /\ Doc(c).id \in grants /\ CanFail /\ Fail
        /\ UNCHANGED issued
        /\ Update(i, RefreshFailed(c))
  /\ UNCHANGED <<isRunning, skippedCycles, cycles, users, logs, catalog,
                 disk, youtube, grants, sched, retry, attempted, clock, trace, call>>

\* the save of the refreshed bundle
SaveTokens(i) ==
  /\ inv[i].pc = "saveTokens"
  /\ \/ /\ NoFail
        /\ users' = [users EXCEPT ![Doc(inv[i]).id] = Stored(inv[i].tokenUser, @)]
        /\ Update(i, [inv[i] EXCEPT !.pc = "insert", !.tokenUser.dirty = {}])
     \/ /\ CanFail /\ Fail
        /\ UNCHANGED users
        /\ Update(i, RefreshFailed(inv[i]))
  /\ UNCHANGED <<isRunning, skippedCycles, cycles, logs, catalog,
                 disk, youtube, issued, grants, sched, retry, attempted, clock, trace, call>>

\* the catch block of getValidTokens
Deactivate(i) ==
  LET c == inv[i]
      a == Doc(c).id
  IN
  /\ c.pc = "deactivate"
  /\ \/ /\ NoFail
        /\ users' = [users EXCEPT ![a] = Stored(c.tokenUser, @)]
        /\ Update(i, Throw(c, ClassifyUploadError(0, MsgTokenExpired)))
     \/ /\ CanFail /\ Fail
        /\ UNCHANGED users
        /\ Update(i, Throw(c, ClassifyUploadError(0, MsgDbWrite)))
  /\ UNCHANGED <<isRunning, skippedCycles, cycles, logs, catalog, disk,
                 youtube, issued, grants, sched, retry, attempted, clock, trace, call>>

\* ---------------------------------------------------------------------
\* TokenService.validateUserTokens
\* ---------------------------------------------------------------------
\* a call of validateUserTokens(userId) about to look the account up
Validation(a) ==
  [op |-> "validateUserTokens", pc |-> "find", userId |-> a,
   user |-> NoBundle,
   exchanges |-> 0, failed |-> FALSE, returned |-> "none"]

\* the value the call resolves with
Resolved(c, value) == [c EXCEPT !.pc = "returned", !.returned = value]

\* refreshTokenIfNeeded threw: validateUserTokens catches, logs, returns false
ValidationCaught(c) == Resolved(c, "false")

\* User.findById, the refresh-token test and the expiry test
ValidateFind ==
  LET a == call.userId IN
  /\ call.op = "validateUserTokens" /\ call.pc = "find"
  /\ \/ /\ NoFail
        /\ IF ~users[a].hasRefreshToken
           THEN call' = Resolved(call, "false")
           ELSE IF Expiring(users[a].expiry_date, clock)
           THEN call' = [call EXCEPT !.pc = "refresh",
                                     !.user = Bundle(a)]
           ELSE call' = Resolved(call, "true")
     \/ /\ CanFail /\ Fail
        /\ call' = ValidationCaught(call)
  /\ UNCHANGED <<isRunning, skippedCycles, cycles, inv, users, logs, catalog,
                 disk, youtube, issued, grants, attempted, clock, retry, sched,
                 trace>>

\* oauth2Client.refreshAccessToken inside validateUserTokens
ValidateRefresh ==
  LET c == [call EXCEPT !.exchanges = @ + 1] IN
  /\ call.op = "validateUserTokens" /\ call.pc = "refresh"
  /\ \/ /\ c.userId \in grants /\ NoFail
        /\ issued' = issued + 1
        /\ call' = [c EXCEPT !.pc = "save",
                             !.user = Refreshed(@, issued + 1, clock + TokenLifetime,
                                                clock)]
     \/ /\ c.userId \notin grants /\ NoFail
        /\ UNCHANGED issued
        /\ call' = ValidationCaught([c EXCEPT !.failed = TRUE])
     \/ /\ c.userId \in grants /\ CanFail /\ Fail
        /\ UNCHANGED issued
        /\ call' = ValidationCaught([c EXCEPT !.failed = TRUE])
  /\ UNCHANGED <<isRunning, skippedCycles, cycles, inv, users, logs, catalog,
                 disk, youtube, grants, attempted, clock, retry, sched, trace>>

\* user.save() of the refreshed bundle inside validateUserTokens
ValidateSave ==
  /\ call.op = "validateUserTokens" /\ call.pc = "save"
  /\ \/ /\ NoFail
        /\ users' = [users EXCEPT ![call.userId] = Stored(call.user, @)]
        /\ call' = Resolved(call, "true")
     \/ /\ CanFail /\ Fail
        /\ UNCHANGED users
        /\ call' = ValidationCaught(call)
  /\ UNCHANGED <<isRunning, skippedCycles, cycles, inv, logs, catalog, disk,
                 youtube, issued, grants, attempted, clock, retry, sched, trace>>

ValidateUserTokens == ValidateFind \/ ValidateRefresh \/ ValidateSave

\* ---------------------------------------------------------------------
\* handleCallback (the OAuth callback of an account that is registered)
\* ---------------------------------------------------------------------
\* the refresh token Google hands out with a new consent
FreshGrant == 2

NoTokens ==
  [accessToken |-> 0, expiry_date |-> 0, refresh_token |-> 0, scope |-> 0,
   token_type |-> 0]

\* a callback for the channel of account a, its code not exchanged yet;
\* failedBefore: the runs whose refresh exchange had failed when the
\* callback's save completed
Callback(a) ==
  [op |-> "handleCallback", pc |-> "getToken", userId |-> a,
   tokens |-> NoTokens, returned |-> "none", failedBefore |-> {}]

\* the catch block of handleCallback: status 500
CallbackCaught(c) == Resolved(c, "500")

\* oauth2Client.getToken(code)
CallbackGetToken ==
  /\ call.op = "handleCallback" /\ call.pc = "getToken"
  /\ \/ /\ NoFail
        /\ issued' = issued + 1
        /\ grants' = grants \cup {call.userId}
        /\ call' = [call EXCEPT !.pc = "channelInfo",
                                !.tokens = [accessToken |-> issued + 1,
                                            expiry_date |-> clock + TokenLifetime,
                                            refresh_token |-> FreshGrant,
                                            scope |-> 1, token_type |-> 1]]
     \/ /\ CanFail /\ Fail
        /\ UNCHANGED <<issued, grants>>
        /\ call' = CallbackCaught(call)
  /\ UNCHANGED <<isRunning, skippedCycles, cycles, inv, users, logs, catalog,
                 disk, youtube, attempted, clock, retry, sched, trace>>

\* youtubeService.getChannelInfo(tokens)
CallbackChannelInfo ==
  /\ call.op = "handleCallback" /\ call.pc = "channelInfo"
  /\ \/ /\ NoFail
        /\ call' = [call EXCEPT !.pc = "findOne"]
     \/ /\ CanFail /\ Fail
        /\ call' = CallbackCaught(call)
  /\ UNCHANGED <<isRunning, skippedCycles, cycles, inv, users, logs, catalog,
                 disk, youtube, issued, grants, attempted, clock, retry, sched,
                 trace>>

\* User.findOne({ channelId }): the account exists
CallbackFindOne ==
  /\ call.op = "handleCallback" /\ call.pc = "findOne"
  /\ \/ /\ NoFail
        /\ call' = [call EXCEPT !.pc = "save"]
     \/ /\ CanFail /\ Fail
        /\ call' = CallbackCaught(call)
  /\ UNCHANGED <<isRunning, skippedCycles, cycles, inv, users, logs, catalog,
                 disk, youtube, issued, grants, attempted, clock, retry, sched,
                 trace>>

\* user.tokens = tokens, user.isActive = true, user.lastTokenRefresh = new
\* Date() on the document found
Reauthorized(old, tokens, now) ==
  [old EXCEPT !.accessToken = tokens.accessToken,
              !.expiry_date = tokens.expiry_date,
              !.refresh_token = tokens.refresh_token,
              !.scope = tokens.scope, !.token_type = tokens.token_type,
              !.hasRefreshToken = tokens.refresh_token # 0,
              !.isActive = TRUE, !.lastTokenRefresh = now]

\* user.save() and the success page
CallbackSave ==
  LET a == call.userId IN
  /\ call.op = "handleCallback" /\ call.pc = "save"
  /\ \/ /\ NoFail
        /\ users' = [users EXCEPT ![a] = Reauthorized(@, call.tokens, clock)]
        /\ call' = Resolved([call EXCEPT !.failedBefore =
                               {i \in Calls : /\ inv[i].pc = "deactivate"
                                              /\ Doc(inv[i]).id = a}],
                            "200")
     \/ /\ CanFail /\ Fail
        /\ UNCHANGED users
        /\ call' = CallbackCaught(call)
  /\ UNCHANGED <<isRunning, skippedCycles, cycles, inv, logs, catalog, disk,
                 youtube, issued, grants, attempted, clock, retry, sched, trace>>

HandleCallback ==
  \/ CallbackGetToken
  \/ CallbackChannelInfo
  \/ CallbackFindOne
  \/ CallbackSave

\* the errors youtube.videos.insert or the one-hour timer can raise
PublishErrors ==
  { [code |-> 403, msg |-> <<"The request cannot be completed because you have exceeded your ", "quota", ".">>],
    [code |-> 401, msg |-> <<"Invalid Credentials">>],
    [code |-> 0, msg |-> <<"invalid_grant">>],
    [code |-> 500, msg |-> MsgBackend] }

\* youtube.videos.insert
InsertVideo(i) ==
  LET c == [inv[i] EXCEPT !.publishTried = TRUE] IN
  /\ c.pc = "insert"
  /\ \/ /\ NoFail
        /\ youtube' = Append(youtube, [account |-> Doc(c).id, video |-> c.videoData.id])
        /\ Update(i, [c EXCEPT !.pc = "saveSuccess", !.uploadResult = Len(youtube) + 1])
     \/ /\ CanFail /\ Fail
        /\ UNCHANGED youtube
        /\ \E e \in PublishErrors :
             Update(i, Throw([c EXCEPT !.cause = e], ClassifyUploadError(e.code, e.msg)))
  /\ UNCHANGED <<isRunning, skippedCycles, cycles, users, logs, catalog,
                 disk, issued, grants, sched, retry, attempted, clock, trace, call>>

\* ---------------------------------------------------------------------
\* processUserUpload after the publish
\* ---------------------------------------------------------------------
SaveSuccess(i) ==
  LET doc == [inv[i].uploadLog EXCEPT !.status = "success",
                                      !.youtubeVideoId = inv[i].uploadResult,
                                      !.dirty = TRUE]
  IN
  /\ inv[i].pc = "saveSuccess"
  /\ \/ /\ NoFail
        /\ SaveLog(doc, i)
        /\ Update(i, [inv[i] EXCEPT !.pc = "saveUser", !.uploadLog = Saved(doc)])
     \/ /\ CanFail /\ Fail
        /\ UNCHANGED logs
        /\ Update(i, Throw([inv[i] EXCEPT !.uploadLog = doc], MsgDbWrite))
  /\ UNCHANGED <<isRunning, skippedCycles, cycles, users, catalog, disk,
                 youtube, issued, grants, sched, retry, attempted, clock, trace, call>>

ServedNoDate(doc, now) ==
  [doc EXCEPT !.totalUploads = @ + 1, !.dirty = @ \cup {"totalUploads"}]

\* the user document after the statistics of a served run are set
Served(doc, now) ==
  [doc EXCEPT !.lastUploadDate = now,
              !.totalUploads = @ + 1,
              !.dirty = @ \cup {"lastUploadDate", "totalUploads"}]

SaveUserStats(i) ==
  LET c == inv[i]
      doc == Served(Doc(c), clock)
  IN
  /\ c.pc = "saveUser"
  /\ clock' = clock + 1
  /\ \/ /\ NoFail
        /\ users' = [users EXCEPT ![doc.id] = Stored(doc, @)]
        /\ Update(i, [c EXCEPT !.pc = "markDownloaded",
                               !.users[c.idx] = [doc EXCEPT !.dirty = {}]])
     \/ /\ CanFail /\ Fail
        /\ UNCHANGED users
        /\ Update(i, Throw([c EXCEPT !.users[c.idx] = doc], MsgDbWrite))
  /\ UNCHANGED <<isRunning, skippedCycles, cycles, logs, catalog, disk,
                 youtube, issued, grants, sched, retry, attempted, trace, call>>

\* the pending list of the main server without video v
Without(seq, v) == SelectSeq(seq, LAMBDA x : x.id # v)

AcknowledgeThrows(c) == Throw(c, MsgFetchTimeout)

\* the failed call is logged and false is returned
AcknowledgeFailed(c) == [c EXCEPT !.pc = "cleanup"]

\* videoService.markAsDownloaded: never throws
MarkAsDownloaded(i) ==
  /\ inv[i].pc = "markDownloaded"
  /\ \/ /\ NoFail
        /\ catalog' = Without(catalog, inv[i].videoData.id)
        /\ Update(i, [inv[i] EXCEPT !.pc = "cleanup"])
     \/ /\ CanFail /\ Fail
        /\ UNCHANGED catalog
        /\ Update(i, AcknowledgeFailed(inv[i]))
  /\ UNCHANGED <<isRunning, skippedCycles, cycles, users, logs, disk,
                 youtube, issued, grants, sched, retry, attempted, clock, trace, call>>

SuccessEntry(c) ==
  [userEmail |-> Doc(c).id, videoTitle |-> c.videoData.id,
   videoUrl |-> <<"https://www.youtube.com/watch?v=", c.uploadResult>>]

\* helpers.cleanupFile, then the success entry
CleanupAndReport(i) ==
  LET c == inv[i] IN
  /\ c.pc = "cleanup"
  /\ \/ /\ NoFail
        /\ disk' = disk \ {c.filePath}
     \/ /\ CanFail /\ Fail
        /\ UNCHANGED disk
  /\ Update(i, Advance([c EXCEPT !.results.successful = Append(@, SuccessEntry(c))]))
  /\ UNCHANGED <<isRunning, skippedCycles, cycles, users, logs, catalog,
                 youtube, issued, grants, sched, retry, attempted, clock, trace, call>>

\* ---------------------------------------------------------------------
\* processUserUpload: the catch block
\* ---------------------------------------------------------------------
FailedLogAsNew(c) ==
  [c.uploadLog EXCEPT !.status = "failed", !.errorMessage = c.error,
                      !.dirty = TRUE, !.id = 0]

\* the document the catch block saves
FailedLog(c) ==
  [c.uploadLog EXCEPT !.status = "failed", !.errorMessage = c.error,
                      !.dirty = TRUE]

CatchSaveLog(i) ==
  LET c == inv[i]
      doc == FailedLog(c)
  IN
  /\ c.pc = "catchLog"
  /\ IF c.uploadLog.isNull
     THEN /\ NoFail
          /\ UNCHANGED logs
          /\ Update(i, [c EXCEPT !.pc = "catchUser"])
     ELSE \/ /\ NoFail
             /\ SaveLog(doc, i)
             /\ Update(i, [c EXCEPT !.pc = "catchUser", !.uploadLog = Saved(doc)])
          \/ /\ CanFail /\ Fail
             /\ UNCHANGED logs
             /\ Update(i, [c EXCEPT !.pc = "catchUser", !.uploadLog = doc])
  /\ UNCHANGED <<isRunning, skippedCycles, cycles, users, catalog, disk,
                 youtube, issued, grants, sched, retry, attempted, clock, trace, call>>

FailedCountSame(n) == n

FailedCount(n) == n + 1

CatchSaveUser(i) ==
  LET c == inv[i]
      doc == [Doc(c) EXCEPT !.failedUploads = FailedCount(@),
                            !.dirty = @ \cup {"failedUploads"}]
  IN
  /\ c.pc = "catchUser"
  /\ \/ /\ NoFail
        /\ users' = [users EXCEPT ![doc.id] = Stored(doc, @)]
        /\ Update(i, [c EXCEPT !.pc = "catchCleanup",
                               !.users[c.idx] = [doc EXCEPT !.dirty = {}]])
     \/ /\ CanFail /\ Fail
        /\ UNCHANGED users
        /\ Update(i, [c EXCEPT !.pc = "catchCleanup", !.users[c.idx] = doc])
  /\ UNCHANGED <<isRunning, skippedCycles, cycles, logs, catalog, disk,
                 youtube, issued, grants, sched, retry, attempted, clock, trace, call>>

CatchCleanup(i) ==
  LET c == inv[i] IN
  /\ c.pc = "catchCleanup"
  /\ IF c.filePath = 0
     THEN NoFail /\ UNCHANGED disk
     ELSE \/ NoFail /\ disk' = disk \ {c.filePath}
          \/ CanFail /\ Fail /\ UNCHANGED disk
  /\ Update(i, [c EXCEPT !.pc = "catchNotify"])
  /\ UNCHANGED <<isRunning, skippedCycles, cycles, users, logs, catalog,
                 youtube, issued, grants, sched, retry, attempted, clock, trace, call>>

IsAuthErrorFirstWord(msg) == Includes(msg, "authentication")

IsAuthError(msg) == Includes(msg, "authentication") \/ Includes(msg, "re-authenticate")

\* what sending the individual alert did
AlertMail(c, script) ==
  IF IsAuthError(c.error) THEN ReAuthMail(script) ELSE ErrorMail(script)

AlertAlwaysGeneric(c) == [kind |-> "error", to |-> <<"reportEmail">>]

\* the individual alert the catch block sends
Alert(c) ==
  IF IsAuthError(c.error)
  THEN [kind |-> "reauth", to |-> <<"user", Doc(c).id>>]
  ELSE [kind |-> "error", to |-> <<"reportEmail">>]

FailedEntry(c) ==
  [userEmail |-> Doc(c).id, videoTitle |-> c.videoData.id, error |-> c.error]

RecordFailureDropped(c) == c

\* results.failed.push
RecordFailure(c) == [c EXCEPT !.results.failed = Append(@, FailedEntry(c))]

CatchNotify(i) ==
  LET c == inv[i] IN
  /\ c.pc = "catchNotify"
  /\ \E script \in TransportScripts :
       /\ Update(i, Advance(RecordFailure([c EXCEPT !.alerts = Append(@, Alert(c)),
                                                    !.mail = AlertMail(c, script)])))
       /\ Transport(AlertMail(c, script))
  /\ UNCHANGED <<isRunning, skippedCycles, cycles, users, logs, catalog,
                 disk, youtube, issued, grants, sched, retry, attempted, clock, trace, call>>

\* ---------------------------------------------------------------------
\* Specification
\* ---------------------------------------------------------------------
Body(i) ==
  \/ CheckDatabase(i)
  \/ SendReportDbError(i)
  \/ QueryUsers(i)
  \/ SendReportNoUsers(i)
  \/ FetchVideo(i)
  \/ CreateLog(i)
  \/ DownloadVideo(i)
  \/ ValidateVideo(i)
  \/ SetUploading(i)
  \/ GetValidTokens(i)
  \/ RefreshToken(i)
  \/ SaveTokens(i)
  \/ Deactivate(i)
  \/ InsertVideo(i)
  \/ SaveSuccess(i)
  \/ SaveUserStats(i)
  \/ MarkAsDownloaded(i)
  \/ CleanupAndReport(i)
  \/ CatchSaveLog(i)
  \/ CatchSaveUser(i)
  \/ CatchCleanup(i)
  \/ CatchNotify(i)
  \/ SendReportFinal(i)
  \/ SendReportCatch(i)
  \/ Finally(i)

Next ==
  \/ CronTick
  \/ RunNow
  \/ \E i \in Calls : Body(i)

Spec == Init /\ [][Next]_vars

\* the starts with every refresh token honoured and one video on the main
\* server: account 1 alone with each video, both accounts with the sound or
\* the empty one.  Every path of a cycle (storage down, query failure, no
\* accounts, each pipeline outcome) occurs
FairInit ==
  /\ Init
  /\ Len(catalog) = 1
  /\ grants = Accounts
  /\ ActiveIds = Accounts => catalog[1].bytes # 512

\* every awaited call returns or fails: a cycle in its body keeps stepping
FairSpec == FairInit /\ [][Next]_vars /\ WF_vars(\E i \in Calls : Body(i))

\* the texts of up to MaxDigits characters
Texts(chars) == UNION { [1..n -> chars] : n \in 0..MaxDigits }

\* the configured times: one text, or an hour and a minute, alone or
\* followed by seconds
ScheduleTimes ==
  { <<h>> : h \in Texts(HourChars) }
    \cup { <<h, m>> \o e : h \in Texts(HourChars), m \in Texts(MinuteChars),
                            e \in { << >>, << <<"4", "5">> >> } }

Threw(job, msg) == [job EXCEPT !.pc = "threw", !.thrown = msg]

\* start(): validate the zone and the time, then schedule
StartJob(job) ==
  LET time == job.scheduleTime
      hour == time[1]
      hasMinute == Len(time) >= 2
      minute == IF hasMinute THEN time[2] ELSE << >>
  IN
  IF job.timezone \notin ZoneNames
  THEN Threw(job, <<"Invalid timezone">>)
  ELSE IF hour = << >> \/ ~hasMinute \/ minute = << >> \/ IsNaN(hour) \/ IsNaN(minute)
  THEN Threw(job, <<"Invalid schedule time format">>)
  ELSE IF Below(hour, 0) \/ Above(hour, 23) \/ Below(minute, 0) \/ Above(minute, 59)
  THEN Threw(job, <<"Invalid schedule time values">>)
  ELSE IF ~CronField(minute) \/ ~CronField(hour)
  THEN Threw(job, <<"Invalid cron expression">>)
  ELSE [job EXCEPT !.pc = "started", !.cronJob = "scheduled"]

Start ==
  /\ sched.pc = "new"
  /\ sched' = StartJob(sched)
  /\ UNCHANGED <<isRunning, skippedCycles, cycles, inv, users, logs, catalog,
                 disk, youtube, issued, grants, attempted, clock, faults, retry, trace, call>>

\* getStatus().isScheduled
IsScheduled == sched.cronJob # "null"

\* the process at startup, before start() is called
StartInit ==
  /\ Deployed /\ Len(catalog) = 2 /\ ActiveIds = Accounts /\ grants = Accounts
  /\ retry = NoRetry
  /\ trace = Untraced
  /\ call = NoCall
  /\ \E zone \in {"Asia/Kolkata", "Mars/Olympus"} : \E time \in ScheduleTimes :
       sched = NotStarted(zone, time)

StartSpec == StartInit /\ [][Start]_vars

\* the job with account 1 alone, its token expired, and one sound video on
\* the main server, the record of the anomaly kept
SkipInit ==
  /\ Deployed /\ ActiveIds = {1} /\ grants = Accounts
  /\ Len(catalog) = 1 /\ catalog[1].bytes = 2048
  /\ retry = NoRetry
  /\ sched = Scheduled
  /\ trace = Traced
  /\ call = NoCall

SkipSpec == SkipInit /\ [][Next]_vars

\* the job with account 1 alone, its token expired, and one sound video on
\* the main server, while the owner of account 1 completes a new consent
ReauthInit ==
  /\ Deployed /\ ActiveIds = {1} /\ grants = Accounts
  /\ Len(catalog) = 1 /\ catalog[1].bytes = 2048
  /\ retry = NoRetry
  /\ sched = Scheduled
  /\ trace = Untraced
  /\ call = Callback(1)

ReauthNext == Next \/ HandleCallback

ReauthSpec == ReauthInit /\ [][ReauthNext]_vars

\* ---------------------------------------------------------------------
\* YouTubeService.validateAndFormatTags.  A tag is a sequence of characters.
\* ---------------------------------------------------------------------
TagLimit == 30     \* slice(0, 30)
TagLength == 30    \* tag.length <= 30

\* the tag of n characters "a"
Long(n) == [k \in 1..n |-> "a"]

RECURSIVE TrimStart(_)
TrimStart(t) == IF t # << >> /\ Head(t) = " " THEN TrimStart(Tail(t)) ELSE t

RECURSIVE TrimEnd(_)
TrimEnd(t) ==
  IF t # << >> /\ t[Len(t)] = " " THEN TrimEnd(SubSeq(t, 1, Len(t) - 1)) ELSE t

\* String.prototype.trim
Trim(t) == TrimEnd(TrimStart(t))

\* String.prototype.split(',')
RECURSIVE Split(_)
Split(t) ==
  IF \E k \in 1..Len(t) : t[k] = ","
  THEN LET k == CHOOSE k \in 1..Len(t) : t[k] = "," /\ \A j \in 1..(k - 1) : t[j] # ","
       IN  <<SubSeq(t, 1, k - 1)>> \o Split(SubSeq(t, k + 1, Len(t)))
  ELSE <<t>>

\* the filter: tag.length > 0 && tag.length <= 30
Kept(tag) == Len(tag) > 0 /\ Len(tag) <= TagLength

\* validateAndFormatTags(tags): tags is null, a string or an array of strings
ValidateAndFormatTags(tags) ==
  IF tags.kind = "null" \/ (tags.kind = "string" /\ tags.text = << >>) THEN << >>
  ELSE LET tagArray == IF tags.kind = "array" THEN tags.list ELSE Split(tags.text)
           trimmed == [k \in 1..Len(tagArray) |-> Trim(tagArray[k])]
           kept == SelectSeq(trimmed, Kept)
       IN  SubSeq(kept, 1, Min(TagLimit, Len(kept)))

\* the tags drawn for the lists: empty, blank, padded, plain, and of 30 and
\* 31 characters
TagPool ==
  { << >>, <<" ">>, <<" ", "a">>, <<"a">>, <<"a", " ">>, <<"b">>, <<"a", " ", "b">>,
    Long(TagLength), Long(TagLength + 1) }

\* a list of n distinct tags that all pass the filter
Distinct(n) == [k \in 1..n |-> IF k <= TagLength THEN Long(k) ELSE <<"b">> \o Long(k - TagLength)]

\* the configured tags: nothing, a comma-separated text, a list of up to
\* MaxTags pooled tags, a list at the limit and lists beyond it
ConfiguredTags ==
  {[kind |-> "null"]}
    \cup {[kind |-> "string", text |-> v] :
            v \in UNION {[1..n -> {"a", ",", " "}] : n \in 0..(MaxTags + 1)}}
    \cup {[kind |-> "array", list |-> v] :
            v \in UNION {[1..n -> TagPool] : n \in 0..MaxTags}}
    \cup {[kind |-> "array", list |-> Distinct(n)] :
            n \in {TagLimit, TagLimit + 1, TagLimit + MaxTags}}

\* a call of validateAndFormatTags runs to its end
FormatTags ==
  /\ call.op = "validateAndFormatTags" /\ call.pc = "called"
  /\ call' = [call EXCEPT !.pc = "returned",
                          !.out = ValidateAndFormatTags(call.tags)]
  /\ UNCHANGED <<isRunning, skippedCycles, cycles, inv, users, logs, catalog,
                 disk, youtube, issued, grants, attempted, clock, faults, retry,
                 sched, trace>>

\* validateAndFormatTags called on the configured tags
TagInit ==
  /\ Deployed /\ Len(catalog) = 2 /\ ActiveIds = Accounts /\ grants = Accounts
  /\ retry = NoRetry /\ sched = Scheduled /\ trace = Untraced
  /\ \E tags \in ConfiguredTags :
       call = [op |-> "validateAndFormatTags", pc |-> "called", tags |-> tags,
               out |-> << >>]

TagSpec == TagInit /\ [][FormatTags]_vars

\* validateUserTokens called for a registered account while no cycle runs
ValidateInit ==
  /\ Deployed
  /\ retry = NoRetry /\ sched = Scheduled /\ trace = Untraced
  /\ \E a \in Accounts : call = Validation(a)

ValidateSpec == ValidateInit /\ [][ValidateUserTokens]_vars

\* the executor on its own, the job at rest
RetryInit ==
  /\ Deployed /\ Len(catalog) = 2 /\ ActiveIds = Accounts /\ grants = Accounts
  /\ retry \in RetryCalls
  /\ sched = Scheduled
  /\ trace = Untraced
  /\ call = NoCall

RetrySpec == RetryInit /\ [][Invoke]_vars

\* ---------------------------------------------------------------------
\* Properties
\* ---------------------------------------------------------------------
InBody(i) == inv[i].pc # "none"
Stepped(i) == inv'[i] # inv[i]
\* a step in which a call of processUploads found the guard taken
Dropped == isRunning /\ skippedCycles' # skippedCycles
\* a step in which a call of processUploads acquired the guard
Acquired == ~isRunning /\ isRunning'
ReportPcs == {"reportDb", "reportEmpty", "reportFinal", "reportCatch"}
Count(seq, a) == Cardinality({k \in 1..Len(seq) : seq[k].userEmail = a})
Rank(status) ==
  CASE status = "pending" -> 0
    [] status = "downloading" -> 1
    [] status = "uploading" -> 2
    [] OTHER -> 3

\* C1: at most one activation of processUploads is in the cycle body at any
\* time, isRunning is set exactly while one is, and an activation enters the
\* body only through a call that finds no cycle running: a call that arrives
\* during a cycle starts nothing, then or later.
C1_MutualExclusion ==
  /\ [](/\ Cardinality({i \in Calls : InBody(i)}) <= 1
        /\ isRunning <=> (\E i \in Calls : InBody(i)))
  /\ [][ /\ \A i \in Calls : (~InBody(i) /\ InBody(i)') => Acquired
         /\ Dropped => inv' = inv ]_vars

\* a cycle is in its body and two calls have been dropped meanwhile
C1_Witness ==
  \E i \in Calls : inv[i].pc = "insert" /\ isRunning /\ skippedCycles = 2

\* C2 as stated: a call made while a cycle runs changes nothing but the skip
\* counter, which it increments; a call that acquires the guard sets it to 0.
C2_SkipIncrements ==
  [][ /\ Dropped =>
          /\ skippedCycles' = skippedCycles + 1
          /\ UNCHANGED <<isRunning, cycles, inv, users, logs, catalog, disk,
                         youtube, issued, grants, attempted, clock, faults>>
      /\ Acquired => skippedCycles' = 0 ]_vars

\* C2 as amended: a call made while a cycle runs changes nothing but the skip
\* counter, which it increments, except that the increment that would reach
\* 3 leaves it at 0; a call that acquires the guard sets it to 0.
C2_SkipIsNoOp ==
  [][ /\ Dropped =>
          /\ skippedCycles' = IF skippedCycles = 2 THEN 0 ELSE skippedCycles + 1
          /\ UNCHANGED <<isRunning, cycles, inv, users, logs, catalog, disk,
                         youtube, issued, grants, attempted, clock, faults>>
      /\ Acquired => skippedCycles' = 0 ]_vars

\* a second cycle has acquired the guard and a call has been dropped in it
C2_Witness ==
  \E i \in Calls : inv[i].cycle = 2 /\ inv[i].pc = "fetch" /\ skippedCycles = 1

\* C3: a cycle that holds the guard eventually releases it, whichever path
\* it takes, and a call made while no cycle runs starts one.
C3_GuardReleased ==
  /\ isRunning ~> ~isRunning
  /\ [][ ~isRunning => (isRunning' /\ \E i \in Calls : inv'[i].pc = "checkDb") ]_vars

\* the account query threw and the cycle is about to release the guard
C3_Witness ==
  \E i \in Calls :
    /\ inv[i].pc = "finally"
    /\ ~inv[i].results.dbError
    /\ inv[i].users = << >>
    /\ ActiveIds # {}

\* C4: a cycle has sent exactly one report when it releases the guard and
\* never more than one before; a dropped call sends none.
C4_OneReport ==
  /\ [](\A i \in Calls :
          /\ inv[i].reports <= 1
          /\ inv[i].pc = "finally" => inv[i].reports = 1
          /\ inv[i].reports = 1 => inv[i].pc = "finally")
  /\ [][ Dropped => \A i \in Calls : inv'[i].reports = inv[i].reports ]_vars

\* a cycle with a success and a failure has sent its report
C4_Witness ==
  \E i \in Calls :
    /\ inv[i].pc = "finally"
    /\ inv[i].reports = 1
    /\ inv[i].results.successful # << >>
    /\ inv[i].results.failed # << >>

\* C5: when the report is dispatched, the success and failure entries
\* together number the selected accounts whose fetch did not return "none".
C5_EntriesMatchAttempts ==
  \A i \in Calls :
    inv[i].pc \in ReportPcs =>
      Len(inv[i].results.successful) + Len(inv[i].results.failed)
        = Len(inv[i].users) - Len(inv[i].none)

\* a report is due for a cycle with one entry and one account without video
C5_Witness ==
  \E i \in Calls :
    /\ inv[i].pc = "reportFinal"
    /\ Len(inv[i].none) = 1
    /\ Len(inv[i].results.successful) + Len(inv[i].results.failed) = 1

\* C6: in a cycle every selected account has at most one stored Transfer
\* Record of that cycle and at most one entry in the two result lists
\* together.
C6_AtMostOnce ==
  \A i \in Calls : \A a \in Accounts :
    InBody(i) =>
      /\ Cardinality({k \in 1..Len(logs) :
            logs[k].userId = a /\ logs[k].cycle = inv[i].cycle}) <= 1
      /\ Count(inv[i].results.successful, a) + Count(inv[i].results.failed, a) <= 1

\* an account whose record was stored as success ended in the failure list
C6_Witness ==
  \E i \in Calls : \E k \in 1..Len(logs) :
    /\ logs[k].cycle = inv[i].cycle
    /\ logs[k].youtubeVideoId # 0
    /\ Count(inv[i].results.failed, logs[k].userId) = 1

\* the catch block has done its writes and is about to return for account a
Returning(i) == inv[i].pc = "catchNotify" /\ Stepped(i)
ReturnedNormally(i) ==
  /\ inv'[i].pc \in {"fetch", "reportFinal"}
  /\ inv'[i].results.failed = Append(inv[i].results.failed, FailedEntry(inv[i]))
  /\ inv'[i].results.successful = inv[i].results.successful

C8_AllAttempted ==
  \A i \in Calls :
    /\ Len(inv[i].runs) <= Len(inv[i].users)
    /\ \A k \in 1..Len(inv[i].runs) : inv[i].runs[k] = inv[i].users[k].id
    /\ (inv[i].pc \in {"reportFinal", "finally"} /\ inv[i].users # << >>)
          => Len(inv[i].runs) = Len(inv[i].users)

\* the first account's run failed and the second account was still attempted
C8_Witness ==
  \E i \in Calls :
    /\ inv[i].pc = "finally"
    /\ Len(inv[i].runs) = 2
    /\ inv[i].results.failed # << >>
    /\ inv[i].results.failed[1].userEmail = inv[i].runs[1]

\* the fetch of frame i returns "none available" in this step
FetchesNone(i) ==
  inv[i].pc = "fetch" /\ catalog = << >> /\ faults' = faults /\ Stepped(i)

\* C9: a run whose fetch returns "none available" sets noVideos and returns
\* without storing a record, changing the account, adding an entry or
\* sending an alert; the cycle still sends its one report.
C9_NoVideoIsNoOp ==
  /\ [][ \A i \in Calls : FetchesNone(i) =>
           /\ inv'[i].results.noVideos
           /\ inv'[i].pc \in {"fetch", "reportFinal"}
           /\ inv'[i].results.successful = inv[i].results.successful
           /\ inv'[i].results.failed = inv[i].results.failed
           /\ inv'[i].alerts = inv[i].alerts
           /\ inv'[i].users = inv[i].users
           /\ UNCHANGED <<users, logs, disk, youtube, issued, grants>> ]_vars
  /\ [](\A i \in Calls :
          (inv[i].pc = "finally" /\ inv[i].results.noVideos) => inv[i].reports = 1)

\* a cycle that found no video for either account has sent its report
C9_Witness ==
  \E i \in Calls :
    /\ inv[i].pc = "finally"
    /\ inv[i].results.noVideos
    /\ Len(inv[i].none) = 2
    /\ inv[i].reports = 1
    /\ inv[i].alerts = << >>

\* C10: the stored status of a Transfer Record never moves back, and a
\* record stored as success or failed is never stored with another status.
C10_StatusMonotonic ==
  [][ \A k \in 1..Len(logs) :
        /\ Rank(logs'[k].status) >= Rank(logs[k].status)
        /\ logs[k].status \in {"success", "failed"} =>
             logs'[k].status = logs[k].status ]_vars

Terminal == {"success", "failed"}

\* the run of frame i for its current account returns in this step
Returns(i) == inv[i].pc \in {"catchNotify", "cleanup"} /\ Stepped(i)

\* C11: when a run returns, the Transfer Record it created is stored with a
\* terminal status; a record stored with a terminal status is not written
\* again; no stored record is ever removed.
C11_TerminalOnce ==
  [][ /\ \A i \in Calls : (Returns(i) /\ ~inv[i].uploadLog.isNull) =>
           /\ inv[i].uploadLog.id # 0
           /\ logs[inv[i].uploadLog.id].status \in Terminal
      /\ Len(logs') >= Len(logs)
      /\ \A k \in 1..Len(logs) :
           logs[k].status \in Terminal => logs'[k] = logs[k] ]_vars

\* the run of frame i returns in this step after every stage succeeded, a
\* refresh exchange included
SucceedsAfterRefresh(i) ==
  inv[i].pc = "cleanup" /\ inv[i].exchanges = 1 /\ Stepped(i)

\* what such a run leaves besides the statuses of its record: totalUploads
\* one higher and one success entry more, with a published URL
SuccessRecorded(i) ==
  LET c == inv[i] IN
  /\ users[Doc(c).id].totalUploads = c.entry.totalUploads + 1
  /\ inv'[i].results.successful = Append(c.results.successful, SuccessEntry(c))
  /\ inv'[i].results.failed = c.results.failed
  /\ SuccessEntry(c).videoUrl # << >>
  /\ c.uploadResult # 0

\* C12 as stated: the record of a run that refreshed an expired token and
\* then succeeded was stored as pending, downloading, uploading, success.
C12_FromPending ==
  [][ \A i \in Calls : SucceedsAfterRefresh(i) =>
        /\ inv[i].uploadLog.trail = <<"pending", "downloading", "uploading", "success">>
        /\ SuccessRecorded(i) ]_vars

\* C12 as amended: the record is created as downloading and was stored as
\* downloading, uploading, success, never as pending.
C12_FromDownloading ==
  [][ \A i \in Calls : SucceedsAfterRefresh(i) =>
        /\ inv[i].uploadLog.trail = <<"downloading", "uploading", "success">>
        /\ SuccessRecorded(i) ]_vars

\* account 1, whose token had expired, is about to return from a run that
\* refreshed it and published
C12_Witness ==
  \E i \in Calls :
    /\ inv[i].pc = "cleanup"
    /\ inv[i].exchanges = 1
    /\ Doc(inv[i]).id = 1
    /\ users[1].expiry_date = StartTime + TokenLifetime
    /\ users[1].totalUploads = 1

\* the error the publish call of frame i raised was a quota error
QuotaError(i) == inv[i].cause.code = 403 \/ Includes(inv[i].cause.msg, "quota")

\* both saves of the catch block succeeded
CatchSaved(i) ==
  /\ inv[i].uploadLog.id # 0
  /\ ~inv[i].uploadLog.dirty
  /\ Doc(inv[i]).dirty = {}

\* C13: a run whose publish call fails with a quota error, its other calls
\* succeeding, returns with its Transfer Record stored as failed with the
\* quota text, the account still active, failedUploads one higher,
\* totalUploads and lastUploadDate as before, and one generic alert to the
\* report address and no re-authorization alert sent.
C13_QuotaFailure ==
  [][ \A i \in Calls : (Returning(i) /\ QuotaError(i) /\ CatchSaved(i)) =>
        LET c == inv[i]
            a == Doc(c).id
        IN
        /\ logs[c.uploadLog.id].status = "failed"
        /\ logs[c.uploadLog.id].errorMessage = MsgQuota
        /\ users[a].isActive
        /\ users[a].failedUploads = c.entry.failedUploads + 1
        /\ users[a].totalUploads = c.entry.totalUploads
        /\ users[a].lastUploadDate = c.entry.lastUploadDate
        /\ inv'[i].alerts = Append(c.alerts, [kind |-> "error", to |-> <<"reportEmail">>]) ]_vars

\* a run whose publish call met a quota error has saved its failure and is
\* about to send the alert
C13_Witness ==
  \E i \in Calls :
    /\ inv[i].pc = "catchNotify"
    /\ QuotaError(i)
    /\ CatchSaved(i)
    /\ inv[i].error = MsgQuota

\* the refresh exchange of the run of frame i was made and failed
ExchangeFailed(i) ==
  /\ inv[i].exchanges = 1
  /\ ~inv[i].tokenUser.isActive
  /\ "accessToken" \notin inv[i].tokenUser.dirty

\* C14: a run whose refresh exchange failed returns with the account stored
\* as inactive and the authentication-expired error, and sends the
\* re-authorization notice to the account and no generic error notice.
C14_RefreshFailure ==
  [][ \A i \in Calls : (Returning(i) /\ ExchangeFailed(i)) =>
        LET c == inv[i]
            a == Doc(c).id
        IN
        /\ ~users[a].isActive
        /\ c.error = UploadFailed(MsgTokenExpired)
        /\ inv'[i].alerts = Append(c.alerts, [kind |-> "reauth", to |-> <<"user", a>>]) ]_vars

\* getValidTokens of frame i reads, in this step, an account that has a
\* refresh token and whose recorded expiry is in the past
ReadsExpired(i) ==
  LET u == users[Doc(inv[i]).id] IN
  /\ inv[i].pc = "getTokens" /\ Stepped(i)
  /\ inv[i].filePath \in disk /\ faults' = faults
  /\ u.hasRefreshToken
  /\ u.expiry_date # 0 /\ u.expiry_date < clock

\* C15: a call of getValidTokens that reads an account with a refresh token
\* and an expiry in the past makes one refresh exchange, and no second one,
\* before it returns or fails.
C15_OneExchange ==
  /\ [][ \A i \in Calls :
           /\ ReadsExpired(i) => (inv'[i].pc = "refresh" /\ inv'[i].exchanges = 0)
           /\ (inv[i].pc = "refresh" /\ Stepped(i)) =>
                 (inv'[i].exchanges = 1 /\ inv'[i].pc \in {"saveTokens", "deactivate"}) ]_vars
  /\ [](\A i \in Calls :
          /\ inv[i].exchanges <= 1
          /\ inv[i].pc \in {"saveTokens", "deactivate"} => inv[i].exchanges = 1)

\* account 1, read with its expiry in the past, has had its one exchange
C15_Witness ==
  \E i \in Calls :
    /\ inv[i].pc = "saveTokens"
    /\ Doc(inv[i]).id = 1
    /\ users[1].expiry_date = StartTime - 1
    /\ inv[i].exchanges = 1

\* refreshTokenIfNeeded is called for the account of frame i in this step
ChecksExpiry(i) ==
  /\ inv[i].pc = "getTokens" /\ Stepped(i)
  /\ inv[i].filePath \in disk /\ faults' = faults
  /\ users[Doc(inv[i]).id].hasRefreshToken

\* C16: refreshTokenIfNeeded goes on to a refresh exchange exactly when no
\* expiry is recorded or now >= expiry - 5 minutes; otherwise it returns the
\* stored bundle, with no exchange and nothing written to the account.
C16_RefreshIffExpiring ==
  /\ [][ \A i \in Calls : ChecksExpiry(i) =>
           LET u == users[Doc(inv[i]).id] IN
           /\ inv'[i].pc = "refresh" <=>
                 (u.expiry_date = 0 \/ clock >= u.expiry_date - 300000)
           /\ inv'[i].pc # "refresh" =>
                 /\ inv'[i].pc = "insert"
                 /\ inv'[i].tokenUser.accessToken = u.accessToken
                 /\ inv'[i].tokenUser.expiry_date = u.expiry_date
                 /\ inv'[i].tokenUser.dirty = {}
                 /\ inv'[i].exchanges = 0
                 /\ UNCHANGED <<users, issued>> ]_vars

\* account 2, one millisecond outside the window, was given its stored
\* bundle without an exchange
C16_Witness ==
  \E i \in Calls :
    /\ inv[i].pc = "insert"
    /\ inv[i].exchanges = 0
    /\ Doc(inv[i]).id = 2
    /\ users[2].expiry_date = clock + FiveMinutes + 1
    /\ inv[i].tokenUser.dirty = {}

\* C17: no step of the scheduler, the pipeline or the credential manager
\* turns a stored account from inactive to active; the pipeline's save of
\* the failure counter from its own copy leaves a deactivated account
\* inactive.
C17_NeverReactivated ==
  [][ \A a \in Accounts : ~users[a].isActive => ~users'[a].isActive ]_vars

\* the pipeline has stored the failure counter of an account that the
\* credential manager deactivated during the run, from a copy that still
\* says active
C17_Witness ==
  \E i \in Calls :
    LET c == inv[i] IN
    /\ c.pc = "catchCleanup"
    /\ ExchangeFailed(i)
    /\ Doc(c).isActive
    /\ Doc(c).dirty = {}
    /\ ~users[Doc(c).id].isActive
    /\ users[Doc(c).id].failedUploads = c.entry.failedUploads + 1

\* the stored lastUploadDate of the account of frame i is not the one it had
\* when the run began
DateUpdated(i) ==
  users[Doc(inv[i]).id].lastUploadDate # inv[i].entry.lastUploadDate

\* C18 as stated: when a run returns, the account's lastUploadDate has been
\* updated if and only if the run reached the publish call.
C18_EveryPublishAttempt ==
  [][ \A i \in Calls : Returns(i) => (DateUpdated(i) <=> inv[i].publishTried) ]_vars

\* C18 as amended: lastUploadDate is updated by every run that returns
\* through the success path and otherwise only by a run that published and
\* stored its record as success; a run whose publish call failed, or that
\* ended before it, leaves lastUploadDate unchanged.
C18_OnlyAfterPublish ==
  [][ \A i \in Calls : Returns(i) =>
        /\ inv[i].pc = "cleanup" => DateUpdated(i)
        /\ DateUpdated(i) =>
              (inv[i].uploadResult # 0 /\ "success" \in Range(inv[i].uploadLog.trail))
        /\ inv[i].uploadResult = 0 => ~DateUpdated(i) ]_vars

\* a run whose publish call failed is about to return with the account's
\* lastUploadDate as it was
C18_Witness ==
  \E i \in Calls :
    /\ inv[i].pc = "catchNotify"
    /\ inv[i].publishTried
    /\ inv[i].uploadResult = 0
    /\ CatchSaved(i)
    /\ ~DateUpdated(i)

\* the account query of frame i returns its batch in this step
Selects(i) == inv[i].pc = "query" /\ inv'[i].pc = "fetch"

\* C19: a cycle selects the active accounts in ascending order of
\* lastUploadDate, the never-served first; a step that advances an account's
\* lastUploadDate belongs to the run of that account, moves it forward and
\* happens once per cycle; and a cycle in which no run failed or found no
\* resource has served every account it selected.
C19_RoundRobin ==
  /\ [][ \A i \in Calls : Selects(i) =>
           LET b == inv'[i].users IN
           /\ Len(b) = Min(BatchLimit, Cardinality(ActiveIds))
           /\ IsQueryResult([k \in 1..Len(b) |-> b[k].id])
           /\ \A j, k \in 1..Len(b) : j < k =>
                 users[b[j].id].lastUploadDate <= users[b[k].id].lastUploadDate ]_vars
  /\ [][ \A a \in Accounts : users'[a].lastUploadDate # users[a].lastUploadDate =>
           \E i \in Calls :
             /\ InBody(i) /\ Doc(inv[i]).id = a
             /\ users'[a].lastUploadDate > users[a].lastUploadDate
             /\ users[a].lastUploadDate = inv[i].entry.lastUploadDate
             /\ Count(inv[i].results.successful, a) = 0 ]_vars
  /\ [](\A i \in Calls :
          (inv[i].pc = "reportFinal" /\ inv[i].results.failed = << >>
             /\ inv[i].none = << >>) =>
            \A k \in 1..Len(inv[i].users) :
              LET a == inv[i].users[k].id IN
              /\ Count(inv[i].results.successful, a) = 1
              /\ users[a].lastUploadDate > 0
              /\ \A j \in 1..Len(inv[i].users) : j < k =>
                    users[inv[i].users[j].id].lastUploadDate < users[a].lastUploadDate)

\* the second cycle has selected both accounts, each served in the first,
\* the one served earlier first
C19_Witness ==
  \E i \in Calls :
    /\ inv[i].cycle = 2
    /\ inv[i].pc = "fetch"
    /\ Len(inv[i].users) = 2
    /\ inv[i].users[1].lastUploadDate > 0
    /\ inv[i].users[1].lastUploadDate < inv[i].users[2].lastUploadDate

\* the configured number of cycles has run and the guard is free again
CyclesDone == cycles = MaxCycles /\ ~isRunning

\* C20: no active account is starved. With a video waiting on the main
\* server, once the cycles have run (one more than it takes to go round a
\* registration of BatchLimit + 1 accounts once), every account that is
\* still active has had its pipeline started, also when the registration
\* exceeds the batch limit and the accounts of the batch keep failing
C20_NoStarvation ==
  (CyclesDone /\ catalog # << >>) =>
    \A a \in DOMAIN users : users[a].isActive => a \in attempted

\* the call of the executor has returned or thrown
Settled == retry.pc = "settled"

\* the first invocation of fn that resolves, 0 when none of the first n does
FirstSuccess(script, n) ==
  IF \E k \in 1..n : script[k].ok
  THEN CHOOSE k \in 1..n : script[k].ok /\ \A j \in 1..(k - 1) : ~script[j].ok
  ELSE 0

\* C21: retryWithBackoff(fn, maxRetries, baseDelay) with maxRetries >= 1
\* invokes fn at most maxRetries times, one invocation after the other; it
\* stops at the first invocation that succeeds and returns that invocation's
\* result; when all maxRetries invocations fail it throws the error of the
\* last one.
C21_RetryContract ==
  Settled =>
    LET n == retry.maxRetries
        s == retry.script
        o == retry.out
        k == FirstSuccess(s, n)
    IN  /\ o.calls <= n
        /\ o.log = SubSeq(s, 1, o.calls)
        /\ k > 0 => /\ o.returned
                    /\ o.calls = k
                    /\ o.value = s[k].res
                    /\ o.thrown = Undefined
        /\ k = 0 => /\ ~o.returned
                    /\ o.calls = n
                    /\ o.thrown = s[n].res

\* three invocations failed, the first and the last with different errors,
\* and the call threw the last one
C21_Witness ==
  /\ Settled
  /\ retry.maxRetries = 3
  /\ FirstSuccess(retry.script, 3) = 0
  /\ retry.script[1].res # retry.script[3].res
  /\ retry.out.thrown = retry.script[3].res

\* C22: after the k-th failed attempt, with k < maxRetries, the executor
\* waits baseDelay * 2^(k-1) before attempt k+1, and it does not wait after
\* the final attempt or after a success: three failed attempts with a base
\* of 1000 wait 1000 then 2000, two failed attempts with a base of 500 wait
\* 500 once.
C22_BackoffDelays ==
  Settled =>
    LET n == retry.maxRetries
        d == retry.baseDelay
        o == retry.out
        k == FirstSuccess(retry.script, n)
        failed == IF k > 0 THEN k - 1 ELSE n
    IN  /\ o.waits = [j \in 1..Min(failed, n - 1) |-> d * 2^(j - 1)]
        /\ (n = 3 /\ d = 1000 /\ k = 0) => o.waits = <<1000, 2000>>
        /\ (n = 2 /\ d = 500 /\ k = 0) => o.waits = <<500>>

\* three attempts with a base of 1000 all failed, after waits of 1000 and 2000
C22_Witness ==
  /\ Settled
  /\ retry.maxRetries = 3
  /\ retry.baseDelay = 1000
  /\ retry.out.calls = 3
  /\ ~retry.out.returned
  /\ retry.out.waits = <<1000, 2000>>

\* frame i sends the cycle report in this step
SendsReport(i) == inv'[i].reports = inv[i].reports + 1

\* frame i sends an individual alert in this step
SendsAlert(i) == Len(inv'[i].alerts) = Len(inv[i].alerts) + 1

\* the alert frame i sends in this step
Sent(i) == inv'[i].alerts[Len(inv'[i].alerts)]

\* a call that stops at the first send the transport accepts, after at most
\* n sends
StopsAtFirstAccept(mail, n) ==
  /\ mail.calls \in 1..n
  /\ mail.delivered <= 1
  /\ mail.delivered = 1 => mail.acceptedAt = mail.calls /\ mail.returned = "true"
  /\ mail.delivered = 0 => mail.calls = n /\ mail.returned = "false"

\* C23: a call of sendUploadReport or of sendErrorNotification makes at most
\* 3 transport sends, a call of sendReAuthenticationRequired at most 2; each
\* stops as soon as a send is accepted, so a call delivers at most one message.
C23_BoundedSends ==
  [][ \A i \in Calls :
        /\ SendsReport(i) => StopsAtFirstAccept(inv'[i].mail, 3)
        /\ (SendsAlert(i) /\ Sent(i).kind = "error") =>
             StopsAtFirstAccept(inv'[i].mail, 3)
        /\ (SendsAlert(i) /\ Sent(i).kind = "reauth") =>
             StopsAtFirstAccept(inv'[i].mail, 2) ]_vars

\* a re-authorization alert was refused once and accepted at the second send
C23_Witness ==
  \E i \in Calls :
    /\ inv[i].alerts # << >>
    /\ inv[i].alerts[Len(inv[i].alerts)].kind = "reauth"
    /\ inv[i].mail.calls = 2
    /\ inv[i].mail.delivered = 1

\* C24: the notification operations never throw, and return false when the
\* transport refused every send. A send changes no account, no record,
\* no artifact and not the guard; after the cycle report the cycle goes to
\* its finally block with the result it had, after an individual alert the
\* failure entry is appended and the loop goes on, and the finally block
\* clears isRunning, whatever the operation returned.
C24_BestEffort ==
  /\ [][ \A i \in Calls : (SendsReport(i) \/ SendsAlert(i)) =>
           /\ inv'[i].mail.returned \in {"true", "false"}
           /\ inv'[i].mail.delivered = 0 => inv'[i].mail.returned = "false"
           /\ UNCHANGED <<users, logs, disk, catalog, youtube, isRunning>> ]_vars
  /\ [][ \A i \in Calls : SendsReport(i) =>
           /\ inv'[i].pc = "finally"
           /\ inv'[i].results = inv[i].results ]_vars
  /\ [][ \A i \in Calls : SendsAlert(i) =>
           /\ inv'[i].pc \in {"fetch", "reportFinal"}
           /\ inv'[i].results.successful = inv[i].results.successful
           /\ inv'[i].results.failed =
                Append(inv[i].results.failed,
                       [userEmail |-> Doc(inv[i]).id,
                        videoTitle |-> inv[i].videoData.id,
                        error |-> inv[i].error]) ]_vars
  /\ [][ \A i \in Calls : (inv[i].pc = "finally" /\ Stepped(i)) => ~isRunning' ]_vars

\* the transport refused all three sends of a generic error alert, and the
\* failure entry of the run is in the result
C24_Witness ==
  \E i \in Calls :
    /\ inv[i].pc \in {"fetch", "reportFinal"}
    /\ inv[i].mail.calls = 3
    /\ inv[i].mail.returned = "false"
    /\ inv[i].results.failed # << >>

\* the alert that goes with a failure entry: the re-authorization notice to
\* the account when the error text names an authentication condition, the
\* generic notice to the report address otherwise
AlertFor(entry) ==
  IF Includes(entry.error, "authentication") \/ Includes(entry.error, "re-authenticate")
  THEN [kind |-> "reauth", to |-> <<"user", entry.userEmail>>]
  ELSE [kind |-> "error", to |-> <<"reportEmail">>]

\* C25: every failed pipeline run sends exactly one individual alert, the
\* re-authorization notice to the account's own address when the error
\* text indicates an authentication condition and the generic notice to
\* the report address otherwise, and appends its failure entry: a run's
\* catch block ends by adding one alert and one entry, nothing else adds
\* either, and between runs the alerts of the cycle match its failure
\* entries one for one.
C25_OneAlertPerFailure ==
  /\ [][ \A i \in Calls : (inv[i].pc = "catchNotify" /\ Stepped(i)) =>
           /\ inv'[i].alerts = Append(inv[i].alerts, Sent(i))
           /\ Len(inv'[i].results.failed) = Len(inv[i].results.failed) + 1 ]_vars
  /\ [][ \A i \in Calls : (inv[i].pc # "catchNotify" /\ inv'[i].pc # "none") =>
           /\ inv'[i].alerts = inv[i].alerts
           /\ inv'[i].results.failed = inv[i].results.failed ]_vars
  /\ [](\A i \in Calls : inv[i].pc \in {"fetch", "reportFinal"} =>
          /\ Len(inv[i].alerts) = Len(inv[i].results.failed)
          /\ \A k \in 1..Len(inv[i].alerts) :
               inv[i].alerts[k] = AlertFor(inv[i].results.failed[k]))

\* a cycle in which the first account's run failed on its credentials and
\* the second account's run on another error
C25_Witness ==
  \E i \in Calls :
    /\ inv[i].pc = "reportFinal"
    /\ Len(inv[i].alerts) = 2
    /\ inv[i].alerts[1].kind = "reauth"
    /\ inv[i].alerts[2].kind = "error"

\* the storage check of frame i returns false in this step
StorageDown(i) == inv[i].pc = "checkDb" /\ faults' # faults /\ Stepped(i)

\* C26: when the storage backend is not reachable at cycle entry the cycle
\* sets dbError in its result, sends the report and ends: it queries no
\* accounts, starts no pipeline run, creates no record and changes no
\* account, and the lists of its result stay empty.
C26_StorageDown ==
  /\ [][ \A i \in Calls : StorageDown(i) =>
           /\ inv'[i].pc = "reportDb"
           /\ inv'[i].results = [EmptyResults EXCEPT !.dbError = TRUE] ]_vars
  /\ [][ \A i \in Calls : (inv[i].pc = "reportDb" /\ Stepped(i)) =>
           /\ SendsReport(i)
           /\ inv'[i].pc = "finally" ]_vars
  /\ [][ \A i \in Calls : (inv[i].results.dbError /\ Stepped(i)) =>
           /\ inv'[i].pc \in {"finally", "none"}
           /\ UNCHANGED <<users, logs, disk, youtube, catalog, attempted>> ]_vars
  /\ [](\A i \in Calls : inv[i].results.dbError =>
          /\ inv[i].results = [EmptyResults EXCEPT !.dbError = TRUE]
          /\ inv[i].users = << >>
          /\ inv[i].runs = << >>
          /\ inv[i].alerts = << >>
          /\ inv[i].reports = IF inv[i].pc = "finally" THEN 1 ELSE 0)

\* a cycle that found the storage down has sent its report, with an active
\* account registered and a video waiting
C26_Witness ==
  \E i \in Calls :
    /\ inv[i].pc = "finally"
    /\ inv[i].results.dbError
    /\ inv[i].reports = 1
    /\ ActiveIds # {}
    /\ catalog # << >>

\* C27: when a pipeline run returns, with any outcome, the artifact the run
\* downloaded is no longer on local storage.
C27_NoArtifactLeft ==
  [][ \A i \in Calls : (Returns(i) /\ inv[i].videoData # NoVideo) =>
        inv[i].videoData.id \notin disk' ]_vars

\* the positions of a frame inside processUserUpload
RunPcs ==
  {"fetch", "createLog", "download", "validate", "setUploading", "getTokens",
   "refresh", "saveTokens", "deactivate", "insert", "saveSuccess", "saveUser",
   "markDownloaded", "cleanup", "catchLog", "catchUser", "catchCleanup",
   "catchNotify"}

\* frame i is in the pipeline run of account a
RunsFor(i, a) == inv[i].pc \in RunPcs /\ Doc(inv[i]).id = a

IsClockText(text) == Len(text) \in 1..2 /\ IsDecimal(text)

\* the configured time has the form hour:minute
IsHourMinute(time) ==
  Len(time) = 2 /\ IsClockText(time[1]) /\ IsClockText(time[2])

\* the three checks of a configuration
ValidConfig(job) ==
  /\ job.timezone \in ZoneNames
  /\ IsHourMinute(job.scheduleTime)
  /\ ToNumber(job.scheduleTime[1]).val \in 0..23
  /\ ToNumber(job.scheduleTime[2]).val \in 0..59

IsNumberText(text) == text # << >> /\ IsDecimal(text)

\* what start() checks: a known zone, and before and after the first colon
\* a number, 0..23 and 0..59; what follows a second colon is not looked at
PassesChecks(job) ==
  /\ job.timezone \in ZoneNames
  /\ Len(job.scheduleTime) >= 2
  /\ IsNumberText(job.scheduleTime[1])
  /\ IsNumberText(job.scheduleTime[2])
  /\ ToNumber(job.scheduleTime[1]).val \in 0..23
  /\ ToNumber(job.scheduleTime[2]).val \in 0..59

AcknowledgeFails(i) ==
  inv[i].pc = "markDownloaded" /\ faults' # faults /\ Stepped(i)

\* frame i is past an acknowledge call that did not take the video off the
\* main server
Unacknowledged(i) ==
  inv[i].pc = "cleanup" /\ \E k \in 1..Len(catalog) : catalog[k].id = inv[i].videoData.id

\* C30: when the acknowledge call fails after a successful publish the run
\* still ends as a success: the failure changes nothing and the run goes on
\* to the cleanup; when it returns, its record is stored as success, the
\* account's totalUploads is one higher and its failedUploads as at the
\* start of the run, the account has an entry in results.successful and
\* none in results.failed, no alert was sent, and the artifact is deleted
\* (unless its removal fails in turn).
C30_AcknowledgeBestEffort ==
  /\ [][ \A i \in Calls : AcknowledgeFails(i) =>
           /\ inv'[i] = [inv[i] EXCEPT !.pc = "cleanup"]
           /\ UNCHANGED <<users, logs, catalog, disk, youtube>> ]_vars
  /\ [][ \A i \in Calls : (Unacknowledged(i) /\ Stepped(i)) =>
           LET c == inv[i]
               a == Doc(c).id
           IN  /\ Returns(i)
               /\ logs'[c.uploadLog.id].status = "success"
               /\ users'[a].totalUploads = c.entry.totalUploads + 1
               /\ users'[a].failedUploads = c.entry.failedUploads
               /\ Len(inv'[i].results.successful) = Len(c.results.successful) + 1
               /\ inv'[i].results.successful[Len(inv'[i].results.successful)].userEmail = a
               /\ inv'[i].results.failed = c.results.failed
               /\ \A k \in 1..Len(c.results.failed) : c.results.failed[k].userEmail # a
               /\ inv'[i].alerts = c.alerts
               /\ faults' = faults => c.filePath \notin disk' ]_vars

\* a run has returned as a success, its artifact deleted, while its video
\* is still the next one on the main server
C30_Witness ==
  \E i \in Calls :
    /\ inv[i].pc \in {"fetch", "reportFinal"}
    /\ inv[i].results.successful # << >>
    /\ inv[i].results.failed = << >>
    /\ catalog # << >>
    /\ inv[i].results.successful[Len(inv[i].results.successful)].videoTitle = catalog[1].id
    /\ disk = {}

\* C31: the anomaly is logged by a dropped trigger exactly when the triggers
\* dropped since the last cycle start number a multiple of three, the counter
\* is 0 right after it is logged, and the counter is 0, 1 or 2 in every state.
C31_StuckLogged ==
  /\ [](skippedCycles \in {0, 1, 2})
  /\ [][ Dropped =>
           /\ trace'.drops = trace.drops + 1
           /\ trace'.stuck = trace.stuck + 1 <=> trace'.drops % 3 = 0
           /\ trace'.stuck \in {trace.stuck, trace.stuck + 1}
           /\ trace'.stuck # trace.stuck => skippedCycles' = 0 ]_vars

\* seven triggers were dropped during one cycle: the anomaly was logged at
\* the third and at the sixth
C31_Witness ==
  isRunning /\ trace.on /\ trace.drops = 7 /\ trace.stuck = 2 /\ skippedCycles = 1

\* the accounts of the batch of frame i, in order
Batch(i) == [k \in 1..Len(inv[i].users) |-> inv[i].users[k].id]

\* C32: the batch a cycle selects holds min(BatchLimit, active accounts)
\* distinct accounts, all active when selected, in ascending lastUploadDate
\* (never served first), none served later than an active account left out;
\* the batch stays as selected, the accounts attempted are its accounts in
\* that order, and all of them once the loop has ended.
C32_BatchAttempted ==
  /\ [][ \A i \in Calls : Selects(i) =>
           LET b == Batch(i)'
               active == {a \in DOMAIN users : users[a].isActive}
           IN
           /\ Len(b) = Min(100, Cardinality(active))
           /\ \A k \in 1..Len(b) : b[k] \in active
           /\ \A j, k \in 1..Len(b) : j < k =>
                 /\ b[j] # b[k]
                 /\ users[b[j]].lastUploadDate <= users[b[k]].lastUploadDate
           /\ \A a \in active : \A k \in 1..Len(b) :
                 a \in Range(b) \/ users[b[k]].lastUploadDate <= users[a].lastUploadDate
           /\ inv'[i].runs = << >> ]_vars
  /\ [][ \A i \in Calls : (inv[i].pc \in RunPcs /\ InBody(i)') =>
           Batch(i)' = Batch(i) ]_vars
  /\ [](\A i \in Calls : InBody(i) =>
          /\ Len(inv[i].runs) <= Len(Batch(i))
          /\ inv[i].runs = SubSeq(Batch(i), 1, Len(inv[i].runs))
          /\ inv[i].pc = "reportFinal" => inv[i].runs = Batch(i))

\* a cycle over a registration larger than one batch is about to report: it
\* attempted a full batch and left an active account out
C32_Witness ==
  \E i \in Calls :
    /\ inv[i].pc = "reportFinal"
    /\ Len(inv[i].runs) = BatchLimit
    /\ \E a \in DOMAIN users : users[a].isActive /\ a \notin Range(inv[i].runs)

\* frame i invokes youtube.videos.insert in this step
PublishInvoked(i) == ~inv[i].publishTried /\ inv'[i].publishTried

\* frame i invokes videoService.markAsDownloaded in this step
AcknowledgeInvoked(i) == inv[i].pc = "markDownloaded" /\ Stepped(i)

CatchPcs == {"catchLog", "catchUser", "catchCleanup", "catchNotify"}

\* the artifact of the run of frame i is in place and passes validation
ArtifactValid(i) ==
  /\ inv[i].filePath # 0
  /\ inv[i].filePath \in disk
  /\ inv[i].videoData.bytes > 0
  /\ inv[i].videoData.bytes >= 1024

\* the Transfer Record of the run of frame i is stored as uploading
RecordUploading(i) ==
  /\ inv[i].uploadLog.id \in 1..Len(logs)
  /\ logs[inv[i].uploadLog.id].status = "uploading"
  /\ logs[inv[i].uploadLog.id].userId = Doc(inv[i]).id

\* the publish of the run of frame i succeeded
Published(i) ==
  /\ inv[i].publishTried
  /\ inv[i].uploadResult \in 1..Len(youtube)
  /\ youtube[inv[i].uploadResult] =
       [account |-> Doc(inv[i]).id, video |-> inv[i].videoData.id]

\* C33: a run invokes the publish only with its artifact downloaded and
\* valid and its record stored as uploading, right after the credential
\* manager returned the bundle without a failure; it invokes the acknowledge
\* only after its publish succeeded; nothing is published or acknowledged
\* otherwise, and a run in its catch block that had not invoked the publish
\* invokes neither until it returns.
C33_StagesInOrder ==
  /\ [][ \A i \in Calls : PublishInvoked(i) =>
           /\ inv[i].pc = "insert"
           /\ ArtifactValid(i)
           /\ RecordUploading(i) ]_vars
  /\ [][ \A i \in Calls : (inv[i].pc # "insert" /\ inv'[i].pc = "insert") =>
           /\ inv[i].pc \in {"getTokens", "saveTokens"}
           /\ faults' = faults
           /\ inv'[i].tokenUser.accessToken = users'[Doc(inv[i]).id].accessToken
           /\ inv'[i].tokenUser.expiry_date = users'[Doc(inv[i]).id].expiry_date
           /\ ArtifactValid(i) /\ RecordUploading(i) ]_vars
  /\ [][ \A i \in Calls : AcknowledgeInvoked(i) => Published(i) ]_vars
  /\ [][ /\ youtube' # youtube => \E i \in Calls : PublishInvoked(i)
         /\ catalog' # catalog => \E i \in Calls : AcknowledgeInvoked(i) ]_vars
  /\ [][ \A i \in Calls : (inv[i].pc \in CatchPcs /\ ~inv[i].publishTried) =>
           /\ ~inv'[i].publishTried
           /\ inv'[i].pc \notin {"insert", "saveSuccess", "saveUser", "markDownloaded"}
           /\ youtube' = youtube /\ catalog' = catalog ]_vars

\* a run whose publish succeeded is about to acknowledge the video
C33_Witness ==
  \E i \in Calls : inv[i].pc = "markDownloaded" /\ Published(i) /\ ArtifactValid(i)

\* C34 as stated, for validateUserTokens: once a refresh exchange of the call
\* has failed the account is stored inactive, and the call returns false
\* without throwing.
C34_ValidateDeactivates ==
  (call.op = "validateUserTokens" /\ call.failed) =>
     /\ ~users[call.userId].isActive
     /\ call.returned = "false"

\* frame i stores the refreshed bundle of its account in this step
RefreshStored(i) == inv[i].pc = "saveTokens" /\ inv'[i].pc = "insert"

\* C35: the save that follows a successful refresh exchange replaces the
\* access token and the expiry of the stored bundle by the ones just issued
\* and sets the refresh timestamp; every other field of the account, and
\* every other account, is as before; the bundle handed back is the stored
\* one; the exchange itself writes nothing.
C35_RefreshFrame ==
  /\ [][ \A i \in Calls : RefreshStored(i) =>
           LET a == Doc(inv[i]).id
               t == inv'[i].tokenUser
           IN
           /\ users'[a].accessToken = issued
           /\ users'[a].accessToken # users[a].accessToken
           /\ users'[a].expiry_date = clock + TokenLifetime
           /\ users'[a].lastTokenRefresh = clock
           /\ users' = [users EXCEPT ![a] =
                          [@ EXCEPT !.accessToken = users'[a].accessToken,
                                    !.expiry_date = users'[a].expiry_date,
                                    !.lastTokenRefresh = users'[a].lastTokenRefresh]]
           /\ \A f \in TokenPaths : t[f] = users'[a][f]
           /\ t.refresh_token = 1 /\ t.scope = 1 /\ t.token_type = 1 ]_vars
  /\ [][ \A i \in Calls : (inv[i].pc = "refresh" /\ Stepped(i)) =>
           users' = users ]_vars

\* a run is about to publish with the bundle it has just refreshed and stored
C35_Witness ==
  \E i \in Calls :
    LET a == Doc(inv[i]).id IN
    /\ inv[i].pc = "insert"
    /\ inv[i].exchanges = 1
    /\ users[a].accessToken = issued
    /\ users[a].lastTokenRefresh = clock
    /\ users[a].refresh_token = 1

\* the run of frame i returns from its catch block in this step, having
\* sent the re-authorization notice
ReAuthNoticeSent(i) ==
  /\ Returning(i)
  /\ Len(inv'[i].alerts) = Len(inv[i].alerts) + 1
  /\ inv'[i].alerts[Len(inv'[i].alerts)].kind = "reauth"

\* the errors a run ends with after the credential manager deactivated the
\* account, after the publish was rejected as unauthenticated, and for a
\* bundle without refresh token
ErrorExpired == ClassifyUploadError(0, MsgTokenExpired)
ErrorUnauthenticated == ClassifyUploadError(401, <<"Invalid Credentials">>)
ErrorNoTokens == ClassifyUploadError(0, MsgTokensNotFound)

C37_TagsClean ==
  (call.op = "validateAndFormatTags" /\ call.pc = "returned") =>
     LET out == call.out IN
     /\ \A j, k \in 1..Len(out) : j # k => out[j] # out[k]
     /\ \A k \in 1..Len(out) :
           /\ out[k] # << >>
           /\ Head(out[k]) # " " /\ out[k][Len(out[k])] # " "
           /\ Len(out[k]) <= 30
     /\ Len(out) <= 30

\* C38 as stated: no video is published twice, in one cycle or across cycles.
C38_PublishedOnce ==
  \A j, k \in 1..Len(youtube) : j # k => youtube[j].video # youtube[k].video

\* the stored Transfer Records with status success that account a has got
\* since n records were stored
SuccessRecords(a, n) ==
  {k \in (n + 1)..Len(logs) : logs[k].userId = a /\ logs[k].status = "success"}

\* the run of frame i returns in this step, after a failure or a success
RunEnds(i) == inv[i].pc \in {"catchNotify", "cleanup"} /\ Stepped(i)

\* C39 as stated: neither stored counter of an account ever decreases, and a
\* run that ends has increased exactly one of the two stored counters of its
\* account by exactly 1, totalUploads by the number of success records the
\* run has stored for the account, so that totalUploads keeps equal to the
\* number of the account's success records.
C39_CountersMatchRecords ==
  [][ /\ \A a \in Accounts :
           /\ users'[a].totalUploads >= users[a].totalUploads
           /\ users'[a].failedUploads >= users[a].failedUploads
      /\ \A i \in Calls : RunEnds(i) =>
           LET a == Doc(inv[i]).id
               e == inv[i].entry
           IN /\ users[a].totalUploads
                   = e.totalUploads + Cardinality(SuccessRecords(a, e.logs))
              /\ \/ /\ users[a].totalUploads = e.totalUploads + 1
                    /\ users[a].failedUploads = e.failedUploads
                 \/ /\ users[a].totalUploads = e.totalUploads
                    /\ users[a].failedUploads = e.failedUploads + 1 ]_vars

\* the callback for account a has stored its bundle and answered
Completed(a) ==
  call.op = "handleCallback" /\ call.userId = a /\ call.returned = "200"

\* C40 as stated: once a re-authorization of an account has completed, a
\* cycle that is processing the account does not set it inactive on the
\* strength of a refresh exchange that failed before that, and does not
\* replace the stored bundle by token values it read before that.
C40_ReauthorizationKept ==
  [][ \A a \in Accounts : Completed(a) =>
        /\ (users[a].isActive /\ ~users'[a].isActive) =>
              \A i \in call.failedBefore : ~Stepped(i)
        /\ users'[a].refresh_token = call.tokens.refresh_token
        /\ users'[a].scope = call.tokens.scope
        /\ users'[a].token_type = call.tokens.token_type ]_vars

====
